---------------------------- MODULE Spec2Model ----------------------------
(***************************************************************************)
(* Frame synchronisation engine of kelsier (src/vulkan/sync.rs).           *)
(*                                                                         *)
(* The CPU side is the single control thread running draw_next_frame; its  *)
(* position inside the function is pc.  The GPU side is the graphics       *)
(* queue, which retires submitted batches and signals their fences.        *)
(* An Option<T> of the source is modelled as a set with at most one        *)
(* element: None is {} and Some(x) is {x}.                                 *)
(***************************************************************************)
EXTENDS Naturals, Integers, Sequences, FiniteSets, TLC

VARIABLES
    frames_in_flight,      \* Objects.frames_in_flight
    num_images,            \* swapchain_details.images.len()
    current_frame,         \* frame_state.current_frame
    images_in_flight,      \* frame_state.images_in_flight : image -> Option<fence>
    fence_signaled,        \* state of in_flight_fences[s], s being the slot
    gpu_pending,           \* batches submitted to the graphics queue, not retired
    pc,                    \* position of the control thread in draw_next_frame
    result,                \* what the last call of draw_next_frame returned
    acquired_image_index,  \* local of draw_next_frame : Option<image>
    image_in_flight,       \* local of draw_next_frame (line 262) : Option<fence>
    call,                  \* device operations issued by the call in progress
    entry,                 \* frame_state as it was when the call started
    acquire_in_order,      \* every acquire so far returned the images in turn
    ticks,                 \* calls of draw_next_frame started so far
    ok_ticks,              \* calls that returned Ok(())
    total_submits,         \* queue_submit calls issued so far
    total_presents,        \* queue_present calls issued so far
    semaphores,            \* the signals the semaphores followed hold
    swapchain,             \* SwapchainDetails and the call of SwapchainDetails::new
    texture                \* the image file and the call of texture::Image::new

\* Setup: the device and what the setup code does with it before the
\* frame loop starts (src/vulkan/device.rs, buffers.rs, image.rs, app.rs).
VARIABLES
    memory_types,          \* Device.memory_properties.memory_types
    memory_query,          \* last call of are_properties_supported : Option
    device_buffers,        \* the buffers created on the device, and their memory
    device_images,         \* the images created on the device
    pool_allocated,        \* command buffers allocated from the command pool
    queue_work,            \* one-shot batches on the graphics queue, not executed
    oneshot,               \* the call of record_and_submit_single_command
    upload,                \* the call of create_gpu_local_buffer
    image_call,            \* the call of ImageData::new or of a transition
    uniform_buffers,       \* the content and mapping of each uniform buffer
    uniform,               \* the snapshot and the call of update_buffer
    timer,                 \* the clock and Objects.start_time
    buffer_details         \* BufferDetails and the call of BufferDetails::new

frame_vars == <<frames_in_flight, num_images, current_frame, images_in_flight,
                fence_signaled, gpu_pending, pc, result,
                acquired_image_index, image_in_flight, call, entry,
                acquire_in_order, ticks, ok_ticks, total_submits,
                total_presents, semaphores, swapchain, texture>>

memory_vars == <<memory_types, memory_query>>

device_vars == <<device_buffers, device_images, pool_allocated, queue_work>>

\* The callers of the one-shot submission.
callers == <<upload, image_call>>

uniform_vars == <<uniform_buffers, uniform>>

engine_vars == <<timer, buffer_details>>

setup_vars == <<memory_vars, device_vars, oneshot, callers, uniform_vars,
                engine_vars>>

vars == <<frame_vars, setup_vars>>

\* What the frame loop is constructed from and leaves alone.
config == <<frames_in_flight, num_images, swapchain, texture>>
counters == <<acquire_in_order, ticks, ok_ticks, total_submits, total_presents>>

\* Bounds of the model.
MaxFrames == 2
MaxImages == 3
MaxTicks == 5

Slots == 0 .. (frames_in_flight - 1)
Images == 0 .. (num_images - 1)

None == {}
Some(x) == {x}
Unwrap(o) == CHOOSE x \in o : TRUE

\* Mutant: the index is not checked against the length.
GetUnchecked(len, i) == Some(i)

\* slice::get : Some(element) when the index is in range, None otherwise.
Get(len, i) == IF i \in 0 .. (len - 1) THEN Some(i) ELSE None

\* FrameState::default
FrameStateDefault(n) == [i \in 0 .. (n - 1) |-> None]

\* What a call has done so far: nothing.
NoCalls ==
    [acquires |-> 0, submits |-> 0, presents |-> 0, resets |-> 0,
     waited |-> {}, written |-> {}, acquire_status |-> "NONE",
     submit_status |-> "NONE", present_status |-> "NONE", ops |-> <<>>]

\* image_available_semaphores.get(slot) and render_finished_semaphores.get(slot)
ImageAvailable(slot) == <<"image_available", slot>>
RenderFinished(slot) == <<"render_finished", slot>>

\* A device operation a call issues: the fence it is given, the semaphores
\* it waits on and signals, the image it is for, and whether it succeeded.
Op(op, ok, fence, wait, signal, image) ==
    [op |-> op, ok |-> ok, fence |-> fence, wait |-> wait,
     signal |-> signal, image |-> image]

\* wait_for_fences(&[fence], true, u64::MAX)
WaitOp(fence, ok) == Op("wait_for_fences", ok, Some(fence), None, None, None)

\* acquire_next_image(swapchain, u64::MAX, image_available_semaphore, null)
AcquireOp(slot, image, ok) ==
    Op("acquire_next_image", ok, None, None, Some(ImageAvailable(slot)), image)

\* update_buffer on the uniform buffer of the image.
UpdateOp(image, ok) == Op("update_buffer", ok, None, None, None, Some(image))

\* The submit issued before the reset of its fence.
SubmitThenReset(slot, fence, image, ok) ==
    <<Op("queue_submit", ok, Some(fence), Some(ImageAvailable(slot)),
         Some(RenderFinished(slot)), Some(image)),
      Op("reset_fences", TRUE, Some(fence), None, None, None)>>

\* reset_fences(&[in_flight_fence]), then queue_submit of the command
\* buffer of the image, waiting on the slot's image-available semaphore,
\* signaling its render-finished semaphore and the fence.
ResetAndSubmit(slot, fence, image, ok) ==
    <<Op("reset_fences", TRUE, Some(fence), None, None, None),
      Op("queue_submit", ok, Some(fence), Some(ImageAvailable(slot)),
         Some(RenderFinished(slot)), Some(image))>>

\* A present that waits on the semaphore of the acquire.
PresentOpOnImageAvailable(slot, image, ok) ==
    Op("queue_present", ok, None, Some(ImageAvailable(slot)), None, Some(image))

\* queue_present waiting on signal_semaphores, for acquired_image_index.
PresentOp(slot, image, ok) ==
    Op("queue_present", ok, None, Some(RenderFinished(slot)), None, Some(image))

\* vk::Result values acquire_next_image can fail with.
OutOfDate == "ERROR_OUT_OF_DATE_KHR"
SwapchainErrors == {OutOfDate, "ERROR_SURFACE_LOST_KHR", "ERROR_DEVICE_LOST"}
DeviceErrors == {"ERROR_DEVICE_LOST"}

\* Mutant: every acquire failure gets the generic message.
AcquireErrorGeneric(err) == "failed to acquire swapchain images: " \o err

\* The map_err closure of draw_next_frame.
AcquireError(err) ==
    IF err = OutOfDate
    THEN "swapchain is out of date"
    ELSE "failed to acquire swapchain images: " \o err

\* Mutant: the suboptimal flag of queue_present is dropped.
PresentResultIgnoreSuboptimal(is_swapchain_suboptimal) == "Ok"

\* The and_then closure of submit_buffers_to_queue.
PresentResult(is_swapchain_suboptimal) ==
    IF is_swapchain_suboptimal THEN "swapchain is invalid" ELSE "Ok"

\* Mutant: the slot counter is not wrapped.
NextFrameNoWrap(cf, n) == cf + 1

\* The rotation of the frame slot.
NextFrame(cf, n) == (cf + 1) % n

\* Mutant: every slot uses the first fence.
SlotFenceFirst(slot) == 0

\* in_flight_fences.get(slot): the fence of a frame slot, named by the slot.
SlotFence(slot) == slot

\* One uniform buffer per framebuffer, hence per swapchain image.
NumUniformBuffers == num_images

\* Mutant: the fence recorded for the image is not looked at.
RecordedFenceIgnored(i) == None

\* frame_state.images_in_flight.get(i), once known to be in range.
RecordedFence(i) == images_in_flight[i]

\* Mutant: the wait returns at once, signaled or not.
FenceReadyNoWait(f) == TRUE

\* wait_for_fences(&[f], true, u64::MAX) returns once f is signaled.
FenceReady(f) == fence_signaled[f]

\* Mutant: the fence is recorded for every image.
RecordAll(images, i, fence) == [k \in DOMAIN images |-> Some(fence)]

\* self.images_in_flight[acquired_image_index] = Some(*in_flight_fence)
Record(images, i, fence) == [images EXCEPT ![i] = Some(fence)]

\* Mutant: a single uniform buffer shared by all images.
UniformBufferShared(image) == 0

\* Descriptor set i is bound to uniform buffer i and command buffer i binds
\* descriptor set i: the batch of image i reads uniform buffer i.
UniformBufferOf(image) == image

\* SwapchainDetails::new was not called.
NoSwapchain ==
    [pc |-> "idle", current_extent |-> None, min_image_extent |-> None,
     max_image_extent |-> None, extent |-> None, images |-> <<>>,
     image_views |-> <<>>, result |-> "NONE"]

\* Image::new was not called.
NoTexture ==
    [pc |-> "idle", format |-> "NONE", width |-> 0, height |-> 0,
     overflow_checks |-> FALSE, data_len |-> 0, size |-> 0,
     result |-> "NONE"]

\* What is followed of the semaphores of Objects: for each slot, the signals
\* its image-available semaphore was given that no submit has waited on and
\* the signals its render-finished semaphore was given that no present has
\* consumed; and the presents queued whose wait has not executed.  A
\* specification that does not follow the semaphores starts from
\* NoSemaphores, and the operations below leave that value alone.
NoSemaphores ==
    [image_available |-> <<>>, render_finished |-> <<>>, presents |-> <<>>]

\* Lines 54-81: one semaphore of each kind per slot, none signaled.
CreatedSemaphores(n) ==
    [image_available |-> [s \in 0 .. (n - 1) |-> 0],
     render_finished |-> [s \in 0 .. (n - 1) |-> 0],
     presents |-> <<>>]

Followed(sems, slot) == slot \in DOMAIN sems.image_available

\* acquire_next_image succeeded: the semaphore it was given will be signaled.
SignalImageAvailable(sems, slot) ==
    IF Followed(sems, slot)
    THEN [sems EXCEPT !.image_available[slot] = @ + 1]
    ELSE sems

\* queue_submit succeeded: the batch waits on the image-available semaphore,
\* which leaves it unsignaled.
WaitImageAvailable(sems, slot) ==
    IF Followed(sems, slot)
    THEN [sems EXCEPT !.image_available[slot] = 0]
    ELSE sems

\* The batch has executed: it signals the render-finished semaphore.
SignalRenderFinished(sems, slot) ==
    IF Followed(sems, slot)
    THEN [sems EXCEPT !.render_finished[slot] = @ + 1]
    ELSE sems

\* queue_present queued a request that waits on the render-finished
\* semaphore of the slot.
QueuePresent(sems, slot, image) ==
    IF Followed(sems, slot)
    THEN [sems EXCEPT !.presents =
                          Append(@, [semaphore |-> slot, image |-> image])]
    ELSE sems

\* A present rejected as out of date or for a lost surface is still queued,
\* and its semaphore wait executes; after a lost device nothing is queued.
PresentWaits(err) == err \in {OutOfDate, "ERROR_SURFACE_LOST_KHR"}

\* The image is queued for presentation: the presentation engine has not
\* released it, and acquire_next_image does not return it.
QueuedForPresent(sems, image) ==
    \E k \in 1 .. Len(sems.presents) : sems.presents[k].image = image

Return(r) ==
    /\ pc' = "idle"
    /\ result' = r

FrameObjects ==
    /\ frames_in_flight \in 1 .. MaxFrames
    /\ num_images \in 1 .. MaxImages
    /\ current_frame = 0
    /\ images_in_flight = FrameStateDefault(num_images)
    /\ fence_signaled = [s \in Slots |-> TRUE]
    /\ gpu_pending = <<>>
    /\ pc = "idle"
    /\ result = "NONE"
    /\ acquired_image_index = None
    /\ image_in_flight = None
    /\ call = NoCalls
    /\ entry = [current_frame |-> 0,
                images_in_flight |-> FrameStateDefault(num_images)]
    /\ acquire_in_order = TRUE
    /\ ticks = 0
    /\ ok_ticks = 0
    /\ total_submits = 0
    /\ total_presents = 0

\* The frame loop with no semaphore followed.
FrameInit ==
    /\ FrameObjects
    /\ semaphores = NoSemaphores
    /\ swapchain = NoSwapchain
    /\ texture = NoTexture

\* The memory types play no part in the frame loop.
MemoryAtRest ==
    /\ memory_types = <<>>
    /\ memory_query = None

\* No one-shot submission is in progress.
NoOneShot ==
    [pc |-> "idle", command |-> <<>>, recorded |-> <<>>, result |-> "NONE",
     pool_before |-> 0, allocated |-> 0, freed |-> 0]

\* No upload is in progress.
NoUpload ==
    [pc |-> "idle", data |-> <<>>, elem_size |-> 1, buffer_size_arg |-> None,
     usage_flag |-> "NONE", buffer_size |-> 0, staging_buffer |-> None,
     gpu_buffer |-> None, written |-> 0, result |-> "NONE", calls |-> 0,
     steps |-> <<>>, buffers_before |-> 0, returned |-> None]

\* No image is being created or transitioned.
NoImageCall ==
    [pc |-> "idle", kind |-> "NONE", image |-> None, buffer |-> None,
     steps |-> <<>>,
     step |-> 1, oneshots |-> 0, pool_before |-> 0, result |-> "NONE",
     calls |-> 0]

\* UniformBuffer::new: model is the rotation by Deg(90.0) about z; angles
\* are counted in millionths of a degree.
QuarterTurn == 90
MicrosPerSecond == 1000000
FullTurn == 360 * MicrosPerSecond

\* The snapshot as constructed, and no update_buffer in progress.
NoUniformCall ==
    [pc |-> "idle", model |-> QuarterTurn * MicrosPerSecond,
     delta_time |-> 0, uniform_buffer |-> None, data |-> <<>>,
     model_before |-> None, unchanged_since |-> None, steps |-> <<>>,
     result |-> "NONE", calls |-> 0]

UniformAtRest ==
    /\ uniform_buffers = <<>>
    /\ uniform = NoUniformCall

\* Objects::new has just read the clock, and BufferDetails::new was not
\* called.
NoTimer == [start_time |-> 0, elapsed |-> 0]

NoDetails ==
    [pc |-> "idle", framebuffers |-> <<>>, command_pool |-> FALSE,
     vertex_buffer |-> None, index_buffer |-> None,
     uniform_buffers |-> <<>>, descriptor_pool |-> None,
     descriptor_sets |-> <<>>, command_buffers |-> <<>>,
     result |-> "NONE"]

EngineAtRest ==
    /\ timer = NoTimer
    /\ buffer_details = NoDetails

\* A device on which nothing was created.
DeviceAtRest ==
    /\ device_buffers = <<>>
    /\ device_images = <<>>
    /\ pool_allocated = 0
    /\ queue_work = <<>>
    /\ oneshot = NoOneShot

\* The frame loop: what the setup did is left alone.
Init ==
    /\ FrameInit
    /\ MemoryAtRest
    /\ DeviceAtRest
    /\ upload = NoUpload
    /\ image_call = NoImageCall
    /\ EngineAtRest
    /\ UniformAtRest

\* Iterator::next : the caller starts a tick.
CallUpTo(limit) ==
    /\ pc = "idle"
    /\ ticks < limit
    /\ pc' = "wait_slot"
    /\ result' = "RUNNING"
    /\ ticks' = ticks + 1
    /\ call' = NoCalls
    /\ acquired_image_index' = None
    /\ image_in_flight' = None
    /\ entry' = [current_frame |-> current_frame,
                 images_in_flight |-> images_in_flight]
    /\ UNCHANGED <<setup_vars, config, semaphores,
                   current_frame, images_in_flight, fence_signaled,
                   gpu_pending, acquire_in_order, ok_ticks, total_submits,
                   total_presents>>

Call == CallUpTo(MaxTicks)

\* Lines 207-215: wait for the fence of the current slot.
WaitSlotFence ==
    /\ pc = "wait_slot"
    /\ Get(frames_in_flight, current_frame) # None
    /\ FenceReady(SlotFence(current_frame))
    /\ pc' = "acquire"
    /\ call' = [call EXCEPT
                   !.waited = @ \cup {SlotFence(current_frame)},
                   !.ops = Append(@, WaitOp(SlotFence(current_frame), TRUE))]
    /\ UNCHANGED <<setup_vars, config, semaphores,
                   current_frame, images_in_flight, fence_signaled,
                   gpu_pending, result, acquired_image_index,
                   image_in_flight, entry, counters>>

\* Lines 210 and 214: the slot has no fence, or wait_for_fences fails.
WaitSlotFenceFail ==
    /\ pc = "wait_slot"
    /\ IF Get(frames_in_flight, current_frame) = None
       THEN Return("could not find fence for current frame")
       ELSE \E err \in DeviceErrors : Return(err)
    /\ UNCHANGED <<setup_vars, config, semaphores,
                   current_frame, images_in_flight, fence_signaled,
                   gpu_pending, acquired_image_index, image_in_flight,
                   call, entry, counters>>

\* Lines 222-229: acquire_next_image returns an image (SUCCESS or
\* SUBOPTIMAL_KHR; the suboptimal flag is dropped).
AcquireOk(i) ==
    /\ pc = "acquire"
    /\ ~QueuedForPresent(semaphores, i)
    /\ \E is_suboptimal \in BOOLEAN :
          /\ acquired_image_index' = Some(i)
          /\ call' = [call EXCEPT
                         !.acquires = @ + 1,
                         !.acquire_status = "SUCCESS",
                         !.ops = Append(@, AcquireOp(current_frame, Some(i),
                                                     TRUE))]
    /\ acquire_in_order' =
          (acquire_in_order /\ i = (ticks - 1) % num_images)
    /\ semaphores' = SignalImageAvailable(semaphores, current_frame)
    /\ pc' = "update"
    /\ UNCHANGED <<setup_vars, config, current_frame, images_in_flight,
                   fence_signaled, gpu_pending, result, image_in_flight,
                   entry, ticks, ok_ticks, total_submits, total_presents>>

\* Mutant: a failed acquire is tried again inside the call.
AcquireFailRetry ==
    /\ pc = "acquire"
    /\ \E err \in SwapchainErrors :
          call' = [call EXCEPT
                      !.acquires = @ + 1,
                      !.acquire_status = err,
                      !.ops = Append(@, AcquireOp(current_frame, None, FALSE))]
    /\ UNCHANGED <<setup_vars, config, semaphores,
                   current_frame, images_in_flight, fence_signaled,
                   gpu_pending, pc, result, acquired_image_index,
                   image_in_flight, entry, counters>>

\* Lines 230-238: acquire_next_image fails.
AcquireFail ==
    /\ pc = "acquire"
    /\ \E err \in SwapchainErrors :
          /\ call' = [call EXCEPT
                         !.acquires = @ + 1,
                         !.acquire_status = err,
                         !.ops = Append(@, AcquireOp(current_frame, None,
                                                     FALSE))]
          /\ Return(AcquireError(err))
    /\ UNCHANGED <<setup_vars, config, semaphores,
                   current_frame, images_in_flight, fence_signaled,
                   gpu_pending, acquired_image_index, image_in_flight,
                   entry, counters>>

Acquire == \E i \in Images : AcquireOk(i)

\* Lines 246-260: the uniform buffer of the acquired image is rewritten.
UpdateUniform ==
    /\ pc = "update"
    /\ LET i == Unwrap(acquired_image_index)
           uniform_buffer == Get(NumUniformBuffers, i)
       IN  /\ uniform_buffer # None
           /\ call' = [call EXCEPT
                          !.written =
                              @ \cup {UniformBufferOf(Unwrap(uniform_buffer))},
                          !.ops = Append(@, UpdateOp(i, TRUE))]
    /\ pc' = "wait_image"
    /\ UNCHANGED <<setup_vars, config, semaphores,
                   current_frame, images_in_flight, fence_signaled,
                   gpu_pending, result, acquired_image_index,
                   image_in_flight, entry, counters>>

\* Lines 250-260: the image has no uniform buffer, or update_buffer fails
\* (map_memory).
UpdateUniformFail ==
    /\ pc = "update"
    /\ IF Get(NumUniformBuffers, Unwrap(acquired_image_index)) = None
       THEN Return("could not find uniform buffer for the image")
       ELSE Return("failed to map memory")
    /\ UNCHANGED <<setup_vars, config, semaphores,
                   current_frame, images_in_flight, fence_signaled,
                   gpu_pending, acquired_image_index, image_in_flight,
                   call, entry, counters>>

\* Lines 262-279: wait for the fence recorded for the acquired image, if
\* any, then record the fence of the current slot for it.
WaitImageFence ==
    /\ pc = "wait_image"
    /\ LET i == Unwrap(acquired_image_index)
           fence == RecordedFence(i)
       IN  /\ Get(num_images, i) # None
           /\ \A f \in fence : FenceReady(f)
           /\ image_in_flight' = fence
           /\ call' = [call EXCEPT
                          !.waited = @ \cup fence,
                          !.ops = IF fence = None THEN @
                                  ELSE Append(@, WaitOp(Unwrap(fence), TRUE))]
           /\ images_in_flight' =
                 Record(images_in_flight, i, SlotFence(current_frame))
    /\ pc' = "submit"
    /\ UNCHANGED <<setup_vars, config, semaphores,
                   current_frame, fence_signaled, gpu_pending,
                   result, acquired_image_index, entry, counters>>

\* Lines 274-278: the wait on the image's fence fails.
WaitImageFenceFail ==
    /\ pc = "wait_image"
    /\ RecordedFence(Unwrap(acquired_image_index)) # None
    /\ image_in_flight' = RecordedFence(Unwrap(acquired_image_index))
    /\ \E err \in DeviceErrors :
          Return("failed to wait for in flight fence: " \o err)
    /\ UNCHANGED <<setup_vars, config, semaphores,
                   current_frame, images_in_flight, fence_signaled,
                   gpu_pending, acquired_image_index, call, entry, counters>>

\* Lines 161-172: reset the slot's fence and submit the command buffer of
\* the acquired image, to signal that fence.
Submit ==
    /\ pc = "submit"
    /\ fence_signaled' =
          [fence_signaled EXCEPT ![SlotFence(current_frame)] = FALSE]
    /\ gpu_pending' = Append(gpu_pending,
                             [fence |-> SlotFence(current_frame),
                              image |-> Unwrap(acquired_image_index)])
    /\ call' = [call EXCEPT
                   !.resets = @ + 1,
                   !.submits = @ + 1,
                   !.submit_status = "SUCCESS",
                   !.ops = @ \o ResetAndSubmit(current_frame,
                                               SlotFence(current_frame),
                                               Unwrap(acquired_image_index),
                                               TRUE)]
    /\ total_submits' = total_submits + 1
    /\ semaphores' = WaitImageAvailable(semaphores, current_frame)
    /\ pc' = "present"
    /\ UNCHANGED <<setup_vars, config, current_frame, images_in_flight, result,
                   acquired_image_index, image_in_flight, entry,
                   acquire_in_order, ticks, ok_ticks, total_presents>>

\* Line 163: reset_fences fails; nothing was reset or submitted.
ResetFail ==
    /\ pc = "submit"
    /\ \E err \in DeviceErrors :
          /\ call' = [call EXCEPT !.submit_status = err]
          /\ Return(err)
    /\ UNCHANGED <<setup_vars, config, semaphores,
                   current_frame, images_in_flight, fence_signaled,
                   gpu_pending, acquired_image_index, image_in_flight,
                   entry, counters>>

\* Lines 164-172: queue_submit fails after the fence was reset.
SubmitFail ==
    /\ pc = "submit"
    /\ fence_signaled' =
          [fence_signaled EXCEPT ![SlotFence(current_frame)] = FALSE]
    /\ total_submits' = total_submits + 1
    /\ \E err \in DeviceErrors :
          /\ call' = [call EXCEPT
                         !.resets = @ + 1,
                         !.submits = @ + 1,
                         !.submit_status = err,
                         !.ops = @ \o ResetAndSubmit(
                                          current_frame,
                                          SlotFence(current_frame),
                                          Unwrap(acquired_image_index),
                                          FALSE)]
          /\ Return("failed to submit to graphics queue: " \o err)
    /\ UNCHANGED <<setup_vars, config, semaphores,
                   current_frame, images_in_flight, gpu_pending,
                   acquired_image_index, image_in_flight, entry,
                   acquire_in_order, ticks, ok_ticks, total_presents>>

\* Lines 186-201 and 281-286: present, then advance the slot on success.
Present(is_swapchain_suboptimal) ==
    LET r == PresentResult(is_swapchain_suboptimal)
    IN  /\ pc = "present"
        /\ call' = [call EXCEPT
                       !.presents = @ + 1,
                       !.present_status =
                           IF is_swapchain_suboptimal
                           THEN "SUBOPTIMAL_KHR" ELSE "SUCCESS",
                       !.ops = Append(@, PresentOp(current_frame,
                                         Unwrap(acquired_image_index), TRUE))]
        /\ total_presents' = total_presents + 1
        /\ semaphores' = QueuePresent(semaphores, current_frame,
                                      Unwrap(acquired_image_index))
        /\ Return(r)
        /\ IF r = "Ok"
           THEN /\ current_frame' = NextFrame(current_frame, frames_in_flight)
                /\ ok_ticks' = ok_ticks + 1
           ELSE UNCHANGED <<current_frame, ok_ticks>>
        /\ UNCHANGED <<setup_vars, config, images_in_flight, fence_signaled,
                       gpu_pending, acquired_image_index, image_in_flight,
                       entry, acquire_in_order, ticks, total_submits>>

PresentOk == Present(FALSE)
PresentSuboptimal == Present(TRUE)

\* Lines 188-192: queue_present fails.
PresentFail ==
    /\ pc = "present"
    /\ \E err \in SwapchainErrors :
          /\ call' = [call EXCEPT
                         !.presents = @ + 1,
                         !.present_status = err,
                         !.ops = Append(@, PresentOp(current_frame,
                                           Unwrap(acquired_image_index),
                                           FALSE))]
          /\ Return("could not present to queue: " \o err)
          /\ semaphores' =
                IF PresentWaits(err)
                THEN QueuePresent(semaphores, current_frame,
                                  Unwrap(acquired_image_index))
                ELSE semaphores
    /\ total_presents' = total_presents + 1
    /\ UNCHANGED <<setup_vars, config, current_frame, images_in_flight,
                   fence_signaled, gpu_pending, acquired_image_index,
                   image_in_flight, entry, acquire_in_order, ticks, ok_ticks,
                   total_submits>>

\* The graphics queue retires a batch and signals its fence.
RemoveAt(s, k) == SubSeq(s, 1, k - 1) \o SubSeq(s, k + 1, Len(s))

GpuRetire ==
    /\ \E k \in 1 .. Len(gpu_pending) :
          /\ fence_signaled' =
                [fence_signaled EXCEPT ![gpu_pending[k].fence] = TRUE]
          /\ gpu_pending' = RemoveAt(gpu_pending, k)
          /\ semaphores' =
                SignalRenderFinished(semaphores, gpu_pending[k].fence)
    /\ UNCHANGED <<setup_vars, config, current_frame, images_in_flight, pc,
                   result, acquired_image_index, image_in_flight, call,
                   entry, counters>>

Next ==
    \/ Call
    \/ WaitSlotFence
    \/ WaitSlotFenceFail
    \/ Acquire
    \/ AcquireFail
    \/ UpdateUniform
    \/ UpdateUniformFail
    \/ WaitImageFence
    \/ WaitImageFenceFail
    \/ Submit
    \/ ResetFail
    \/ SubmitFail
    \/ PresentOk
    \/ PresentSuboptimal
    \/ PresentFail
    \/ GpuRetire

Spec == Init /\ [][Next]_vars

TypeOK ==
    /\ current_frame \in Slots
    /\ \A i \in Images : images_in_flight[i] \subseteq Slots

(***************************************************************************)
(* The scenario of the specification: two frame slots, three swapchain     *)
(* images, five ticks that acquire images 0,1,2,0,1 and reach their        *)
(* submit.  The scenario fixes neither the pace of the GPU nor what        *)
(* queue_present reports.                                                  *)
(***************************************************************************)
ScenarioAcquires == <<0, 1, 2, 0, 1>>

ScenarioInit ==
    /\ Init
    /\ frames_in_flight = 2
    /\ num_images = 3

ScenarioCall == CallUpTo(Len(ScenarioAcquires))

ScenarioAcquire == AcquireOk(ScenarioAcquires[ticks])

ScenarioNext ==
    \/ ScenarioCall
    \/ WaitSlotFence
    \/ ScenarioAcquire
    \/ UpdateUniform
    \/ WaitImageFence
    \/ Submit
    \/ PresentOk
    \/ PresentSuboptimal
    \/ PresentFail
    \/ GpuRetire

SpecScenario == ScenarioInit /\ [][ScenarioNext]_vars

(***************************************************************************)
(* Properties.                                                             *)
(***************************************************************************)
Pending == {gpu_pending[k] : k \in 1 .. Len(gpu_pending)}
PendingIndex == 1 .. Len(gpu_pending)
Returned == pc = "idle" /\ ticks > 0
TheImage == Unwrap(acquired_image_index)

\* C1: the command buffer of image i is never submitted while an earlier
\* batch for image i is pending: the fence recorded for the acquired image
\* at the start of the call has been waited on when the call reaches its
\* submit, no batch for that image is pending then, and no two pending
\* batches are for the same image.
C1_ImageFenceWaitedBeforeSubmit ==
    /\ \A a, b \in PendingIndex :
          a # b => gpu_pending[a].image # gpu_pending[b].image
    /\ pc = "submit" =>
          /\ image_in_flight = entry.images_in_flight[TheImage]
          /\ image_in_flight \subseteq call.waited
          /\ \A f \in image_in_flight : fence_signaled[f]
          /\ \A b \in Pending : b.image # TheImage

\* C1 witness: with more images than slots, the call is about to submit for
\* an image whose recorded fence belongs to the other slot; it has waited
\* on both fences.
C1_Witness ==
    /\ pc = "submit"
    /\ num_images > frames_in_flight
    /\ image_in_flight # None
    /\ image_in_flight # Some(current_frame)
    /\ call.waited = image_in_flight \cup Some(current_frame)

\* C2: a call submits the batch that signals the slot's fence only after
\* it waited for that fence, so no two pending batches signal one fence.
C2_SubmitAfterSlotWait ==
    /\ \A a, b \in PendingIndex :
          a # b => gpu_pending[a].fence # gpu_pending[b].fence
    /\ pc = "submit" =>
          /\ current_frame \in call.waited
          /\ fence_signaled[current_frame]
          /\ \A b \in Pending : b.fence # current_frame
    /\ \A b \in Pending : ~fence_signaled[b.fence]

\* C2 witness: the slot is used for the second time, and the call has
\* passed the wait on its fence.
C2_Witness ==
    /\ pc = "submit"
    /\ ok_ticks >= frames_in_flight
    /\ current_frame \in call.waited
    /\ gpu_pending # <<>>

\* C3: at most frames_in_flight batches are submitted and not yet retired.
C3_PendingAtMostFramesInFlight == Len(gpu_pending) <= frames_in_flight

\* C3 witness: the limit is reached with two slots.
C3_Witness ==
    /\ frames_in_flight = 2
    /\ Len(gpu_pending) = frames_in_flight

\* C4: in the scenario, the five ticks issue exactly five queue submits
\* and five presents, one of each per tick, and no batch is submitted for
\* an image that has a batch pending.
C4_ScenarioFiveSubmitsFivePresents ==
    /\ total_submits <= ticks
    /\ total_presents <= total_submits
    /\ Returned => (total_submits = ticks /\ total_presents = ticks)
    /\ (pc = "idle" /\ ticks = Len(ScenarioAcquires)) =>
          (total_submits = 5 /\ total_presents = 5)
    /\ pc = "submit" => \A b \in Pending : b.image # TheImage
    /\ Cardinality({b.image : b \in Pending}) = Len(gpu_pending)

\* C4 witness: the scenario has run to its end.
C4_Witness ==
    /\ pc = "idle"
    /\ ticks = Len(ScenarioAcquires)
    /\ total_submits = 5
    /\ total_presents = 5

\* C5: a successful call leaves current_frame at (current_frame + 1) mod
\* frames_in_flight; current_frame is always a slot; after exactly
\* frames_in_flight successful ticks it is 0 again.
C5_FrameSlotRotation ==
    /\ current_frame \in 0 .. (frames_in_flight - 1)
    /\ (Returned /\ result = "Ok") =>
          current_frame = (entry.current_frame + 1) % frames_in_flight
    /\ ok_ticks = frames_in_flight => current_frame = 0

\* C5 witness: with two slots, the second successful tick has returned.
C5_Witness ==
    /\ frames_in_flight = 2
    /\ ok_ticks = frames_in_flight
    /\ Returned
    /\ result = "Ok"
    /\ entry.current_frame = 1

\* C6 as stated: with as many images as slots, the fence recorded for the
\* acquired image is absent or the current slot's own fence, in every tick.
C6_Original ==
    (num_images = frames_in_flight /\ pc = "submit") =>
        image_in_flight \subseteq Some(current_frame)

\* Every earlier tick returned Ok(()) and every acquire so far, this
\* tick's included, returned the images in turn: 0, 1, ..., 0, 1, ...
InStep == acquire_in_order /\ ok_ticks = ticks - 1

\* C6 amended: with as many images as slots, as long as acquire returns
\* the images in turn starting with image 0 and no tick has failed, the
\* fence recorded for the acquired image is absent or the current slot's
\* own fence, and the acquired image has the index of the current slot.
C6_OneToOneWhileInStep ==
    (num_images = frames_in_flight /\ pc = "submit" /\ InStep) =>
        /\ image_in_flight \subseteq Some(current_frame)
        /\ TheImage = current_frame

\* C6 witness: two slots, two images, in step, and the image comes back
\* to the slot that owns it.
C6_Witness ==
    /\ num_images = frames_in_flight
    /\ frames_in_flight = 2
    /\ pc = "submit"
    /\ InStep
    /\ image_in_flight = Some(current_frame)

C8_OutOfDateDistinctAndWithoutEffect ==
    /\ (Returned /\ call.acquire_status = OutOfDate) =>
          /\ result = "swapchain is out of date"
          /\ call.written = {}
          /\ call.submits = 0
          /\ call.presents = 0
          /\ call.resets = 0
          /\ current_frame = entry.current_frame
          /\ images_in_flight = entry.images_in_flight
    /\ (Returned /\ call.acquire_status \in SwapchainErrors \ {OutOfDate}) =>
          result # "swapchain is out of date"
    /\ (Returned /\ result = "swapchain is out of date") =>
          call.acquire_status = OutOfDate

\* C8 witness: out of date is reported while a batch of an earlier tick
\* is still pending.
C8_Witness ==
    /\ Returned
    /\ call.acquire_status = OutOfDate
    /\ result = "swapchain is out of date"
    /\ gpu_pending # <<>>

\* C9: when present reports suboptimal the call returns "swapchain is
\* invalid" and current_frame is not advanced, although the batch was
\* submitted, the present was issued and images_in_flight names the slot's
\* fence for the acquired image.
C9_SuboptimalPresentFailsTheTick ==
    (Returned /\ call.present_status = "SUBOPTIMAL_KHR") =>
        /\ result = "swapchain is invalid"
        /\ current_frame = entry.current_frame
        /\ call.submits = 1
        /\ call.submit_status = "SUCCESS"
        /\ call.presents = 1
        /\ images_in_flight[TheImage] = Some(current_frame)

\* C9 witness: a suboptimal present in slot 1, the image having been
\* recorded for the other slot before.
C9_Witness ==
    /\ Returned
    /\ call.present_status = "SUBOPTIMAL_KHR"
    /\ current_frame = 1
    /\ entry.images_in_flight[TheImage] = Some(0)
    /\ images_in_flight[TheImage] = Some(1)

\* C10: a call issues at most one acquire, one queue submit and one
\* present; after a failed acquire nothing is submitted or presented,
\* after a failed submit nothing is presented, and the call returns the
\* failure of the step that failed.
C10_NoRetryInsideACall ==
    /\ call.acquires <= 1
    /\ call.submits <= 1
    /\ call.presents <= 1
    /\ call.resets <= 1
    /\ call.acquire_status \in SwapchainErrors =>
          /\ Returned
          /\ call.submits = 0 /\ call.presents = 0
          /\ result \in {"swapchain is out of date",
                         "failed to acquire swapchain images: "
                             \o call.acquire_status}
    /\ call.submit_status \in DeviceErrors =>
          /\ Returned
          /\ call.presents = 0
          /\ result \in {call.submit_status,
                         "failed to submit to graphics queue: "
                             \o call.submit_status}
    /\ call.present_status \in SwapchainErrors =>
          /\ Returned
          /\ result = "could not present to queue: " \o call.present_status
    /\ (Returned /\ result = "Ok") =>
          (call.acquires = 1 /\ call.submits = 1 /\ call.presents = 1)

\* C10 witness: a call returned the failure of its queue submit.
C10_Witness ==
    /\ Returned
    /\ call.submit_status \in DeviceErrors
    /\ call.submits = 1
    /\ call.acquires = 1
    /\ result = "failed to submit to graphics queue: ERROR_DEVICE_LOST"

\* The device operations of the call, by position, and those of one kind.
OpIndex == 1 .. Len(call.ops)
OpsOf(op) == {k \in OpIndex : call.ops[k].op = op}
TheSlot == entry.current_frame

\* C25: within a call the slot's fence is reset only after the wait on the
\* slot's fence and the wait on the fence recorded for the acquired image
\* have completed; the device operation after the reset is the queue submit
\* that signals the same fence; and a fence goes from signaled to unsignaled
\* only in the step that also issues the submit.
C25_ResetOnlyRightBeforeSubmit ==
    /\ [](\A k \in OpsOf("reset_fences") :
            /\ call.ops[k].fence = Some(TheSlot)
            /\ \E j \in 1 .. (k - 1) : call.ops[j] = WaitOp(TheSlot, TRUE)
            /\ \A f \in entry.images_in_flight[TheImage] :
                  \E j \in 1 .. (k - 1) : call.ops[j] = WaitOp(f, TRUE)
            /\ k < Len(call.ops)
            /\ call.ops[k + 1].op = "queue_submit"
            /\ call.ops[k + 1].fence = call.ops[k].fence
            /\ \A j \in OpsOf("reset_fences") : j = k)
    /\ [][\A s \in Slots :
            (fence_signaled[s] /\ ~fence_signaled'[s]) =>
               /\ pc = "submit"
               /\ s = current_frame
               /\ s \in call.waited
               /\ image_in_flight \subseteq call.waited
               /\ call'.submits = call.submits + 1]_vars

\* C25 witness: the call waited on the slot's fence and on the fence of the
\* other slot recorded for the image, then reset and submitted.
C25_Witness ==
    /\ pc = "present"
    /\ entry.images_in_flight[TheImage] # None
    /\ entry.images_in_flight[TheImage] # Some(TheSlot)
    /\ OpsOf("reset_fences") # {}
    /\ OpsOf("wait_for_fences") = {1, 4}
    /\ ~fence_signaled[TheSlot]

\* C26: within a call the order is acquire, submit, present; the submit
\* waits on the image-available semaphore of the slot, the one given to the
\* acquire of this call, and signals the render-finished semaphore of the
\* slot; the present waits on that render-finished semaphore and presents
\* the image acquired in this call; no present follows a failed submit.
C26_AcquireSubmitPresent ==
    /\ \A q \in OpsOf("queue_submit") :
          \E a \in 1 .. (q - 1) :
             /\ call.ops[a] = AcquireOp(TheSlot, acquired_image_index, TRUE)
             /\ call.ops[q].wait = call.ops[a].signal
             /\ call.ops[q].wait = Some(ImageAvailable(TheSlot))
             /\ call.ops[q].signal = Some(RenderFinished(TheSlot))
             /\ call.ops[q].image = call.ops[a].image
    /\ \A p \in OpsOf("queue_present") :
          \E q \in 1 .. (p - 1) :
             /\ call.ops[q].op = "queue_submit"
             /\ call.ops[q].ok
             /\ call.ops[p].wait = call.ops[q].signal
             /\ call.ops[p].image = acquired_image_index
             /\ acquired_image_index # None
    /\ \A q \in OpsOf("queue_submit") :
          ~call.ops[q].ok => OpsOf("queue_present") = {}
    /\ \A k \in OpIndex :
          call.ops[k].op \in {"queue_submit", "queue_present"} =>
             \A j \in (k + 1) .. Len(call.ops) :
                call.ops[j].op \notin {"acquire_next_image", call.ops[k].op}

\* C26 witness: a call on the second slot acquired image 2, submitted and
\* presented it.
C26_Witness ==
    /\ Returned
    /\ result = "Ok"
    /\ TheSlot = 1
    /\ acquired_image_index = Some(2)
    /\ OpsOf("queue_present") # {}
    /\ \E q \in OpsOf("queue_submit") :
          call.ops[q].signal = Some(RenderFinished(1))

\* C27 as stated: entry i of images_in_flight names the slot that last
\* rendered into image i, so a call that has changed an entry has submitted
\* the rendering into that image.
C27_Original ==
    (Returned /\ images_in_flight # entry.images_in_flight) =>
       call.submit_status = "SUCCESS"

\* C27: images_in_flight has one entry per swapchain image, each empty or
\* the fence of a slot, all empty before the first call; a call that
\* reaches the submission with slot s and image i sets entry i to the fence
\* of s and changes no other entry; every batch that is rendering into an
\* image is named by the entry of that image, and when a submit succeeds
\* the entry of its image names the submitting slot.
C27_ImageFenceRecorded ==
    /\ [](/\ DOMAIN images_in_flight = Images
          /\ \A i \in Images :
                /\ images_in_flight[i] \subseteq Slots
                /\ Cardinality(images_in_flight[i]) <= 1
                /\ ticks = 0 => images_in_flight[i] = None
          /\ \A b \in Pending : images_in_flight[b.image] = Some(b.fence))
    /\ [][/\ (pc = "wait_image" /\ pc' = "submit") =>
               images_in_flight'[TheImage] = Some(current_frame)
          /\ \A i \in Images :
                images_in_flight'[i] # images_in_flight[i] =>
                   /\ pc = "wait_image"
                   /\ pc' = "submit"
                   /\ i = TheImage
          /\ Len(gpu_pending') > Len(gpu_pending) =>
                /\ images_in_flight[TheImage] = Some(current_frame)
                /\ gpu_pending' =
                      Append(gpu_pending,
                             [fence |-> current_frame, image |-> TheImage])
                /\ UNCHANGED images_in_flight]_vars

\* C27 witness: the call recorded its slot for an image whose entry named
\* the other slot, and submitted.
C27_Witness ==
    /\ pc = "present"
    /\ entry.images_in_flight[TheImage] # None
    /\ entry.images_in_flight[TheImage] # Some(current_frame)
    /\ images_in_flight[TheImage] = Some(current_frame)
    /\ \E b \in Pending : b.image = TheImage /\ b.fence = current_frame
    /\ \E i \in Images : i # TheImage /\ images_in_flight[i] # None

\* The frame loop under the assumptions of the liveness claim: a wait
\* returns once its fence is signaled, acquire_next_image returns, every
\* other device call returns, and the GPU retires every submitted batch.
\* Nothing obliges a wait on a fence that is not signaled to return.
Fairness ==
    /\ WF_vars(WaitSlotFence)
    /\ WF_vars(Acquire \/ AcquireFail)
    /\ WF_vars(UpdateUniform \/ UpdateUniformFail)
    /\ WF_vars(WaitImageFence)
    /\ WF_vars(Submit \/ ResetFail \/ SubmitFail)
    /\ WF_vars(PresentOk \/ PresentSuboptimal \/ PresentFail)
    /\ WF_vars(GpuRetire)

SpecLive == Init /\ [][Next]_vars /\ Fairness

\* The frame loop on a device whose queue_submit never fails.
NextSubmitOk ==
    \/ Call
    \/ WaitSlotFence
    \/ WaitSlotFenceFail
    \/ Acquire
    \/ AcquireFail
    \/ UpdateUniform
    \/ UpdateUniformFail
    \/ WaitImageFence
    \/ WaitImageFenceFail
    \/ Submit
    \/ ResetFail
    \/ PresentOk
    \/ PresentSuboptimal
    \/ PresentFail
    \/ GpuRetire

SpecLiveSubmitOk == Init /\ [][NextSubmitOk]_vars /\ Fairness

\* C29 as stated: every call of draw_next_frame eventually returns.
C29_EveryCallReturns == (pc # "idle") ~> (pc = "idle")

\* C30 as stated: each slot fence is signaled or has a pending submission
\* that will signal it.
C30_FenceSignaledOrPending ==
    \A s \in Slots : fence_signaled[s] \/ \E b \in Pending : b.fence = s

(***************************************************************************)
(* Memory allocator: Device::are_properties_supported                      *)
(* (src/vulkan/device.rs).                                                 *)
(***************************************************************************)
\* Bound: the number of memory types the device reports.
MaxMemoryTypes == 3

\* One frame slot, one image, nothing drawn: the frame loop has not started.
FrameAtRest ==
    /\ FrameInit
    /\ frames_in_flight = 1
    /\ num_images = 1

\* vk::MemoryPropertyFlags, as sets of flag names.
DeviceLocal == {"DEVICE_LOCAL"}
HostVisibleCoherent == {"HOST_VISIBLE", "HOST_COHERENT"}
MemoryPropertyFlags == {"DEVICE_LOCAL", "HOST_VISIBLE", "HOST_COHERENT"}

\* The property flags a memory type may have.
MemoryTypeFlags ==
    {{}, DeviceLocal, {"HOST_VISIBLE"}, HostVisibleCoherent,
     MemoryPropertyFlags}

\* (type_filter & (1u32 << i)) > 0
BitSet(type_filter, i) == (type_filter \div (2 ^ i)) % 2 = 1

\* memory_type.property_flags.contains(required_properties)
Contains(property_flags, required_properties) ==
    required_properties \subseteq property_flags

\* Mutant: the last matching memory type is taken, not the first.
FindLastMemoryType(table, type_filter, required_properties) ==
    LET matching == {i \in 0 .. (Len(table) - 1) :
                        /\ BitSet(type_filter, i)
                        /\ Contains(table[i + 1], required_properties)}
    IN  IF matching = {} THEN None
        ELSE Some(CHOOSE i \in matching : \A j \in matching : j <= i)

\* iter().enumerate().find(..): the scan from index i on.
RECURSIVE FindFrom(_, _, _, _)
FindFrom(table, i, type_filter, required_properties) ==
    IF i >= Len(table) THEN None
    ELSE IF /\ BitSet(type_filter, i)
            /\ Contains(table[i + 1], required_properties)
         THEN Some(i)
         ELSE FindFrom(table, i + 1, type_filter, required_properties)

FindMemoryType(table, type_filter, required_properties) ==
    FindFrom(table, 0, type_filter, required_properties)

\* Device::are_properties_supported: the index found, or the error.
AreProperiesSupported(table, type_filter, required_properties) ==
    LET found == FindMemoryType(table, type_filter, required_properties)
    IN  [type_filter |-> type_filter,
         required |-> required_properties,
         index |-> found,
         error |-> IF found = None
                   THEN "failed to find suitable memory type" ELSE "Ok"]

MemoryInit ==
    /\ FrameAtRest
    /\ DeviceAtRest
    /\ upload = NoUpload
    /\ image_call = NoImageCall
    /\ EngineAtRest
    /\ UniformAtRest
    /\ \E n \in 1 .. MaxMemoryTypes :
          memory_types \in [1 .. n -> MemoryTypeFlags]
    /\ memory_query = None

\* A caller asks for a memory type.
QueryMemoryType ==
    /\ memory_query = None
    /\ \E type_filter \in 0 .. (2 ^ MaxMemoryTypes - 1),
          required_properties \in SUBSET MemoryPropertyFlags :
          memory_query' =
              Some(AreProperiesSupported(memory_types, type_filter,
                                         required_properties))
    /\ UNCHANGED <<frame_vars, memory_types, device_vars, oneshot, callers,
                   uniform_vars, engine_vars>>

MemoryNext == QueryMemoryType

SpecMemory == MemoryInit /\ [][MemoryNext]_vars

\* The memory types a query may be answered with.
Suitable(q) ==
    {i \in 0 .. (Len(memory_types) - 1) :
        /\ (q.type_filter \div (2 ^ i)) % 2 = 1
        /\ q.required \subseteq memory_types[i + 1]}

\* C11: are_properties_supported returns the smallest index whose bit is
\* set in type_filter and whose property flags include every required
\* flag, and fails when there is none; the answer is thereby fixed by the
\* type filter, the required flags and the table of memory types.
C11_LowestSuitableMemoryType ==
    \A q \in memory_query :
        IF Suitable(q) = {}
        THEN /\ q.index = None
             /\ q.error = "failed to find suitable memory type"
        ELSE /\ q.index # None
             /\ q.error = "Ok"
             /\ \A i \in q.index :
                   /\ i \in Suitable(q)
                   /\ \A j \in Suitable(q) : i <= j

\* C11 witness: two memory types are suitable, the first one has its bit
\* cleared in the filter or lacks a flag, and the lower of the two suitable
\* ones is returned.
C11_Witness ==
    \E q \in memory_query :
        /\ Cardinality(Suitable(q)) = 2
        /\ 0 \notin Suitable(q)
        /\ q.required = HostVisibleCoherent
        /\ q.index = Some(1)

-----------------------------------------------------------------------------
\* The device objects of the transfers: buffers with their memory, the
\* command pool and the graphics queue (src/src/vulkan/buffers.rs).

MaxUploads == 1
MaxDataBytes == 2
MaxBufferSize == 4

Byte == {"a", "b"}
Uninitialized == "?"

\* The element sizes of the slices uploaded: size_of::<T>().
ElemSizes == {1, 2}

\* memory_type_bits of a buffer: every memory type of the table.
MemoryTypeBits(table) == 2 ^ Len(table) - 1

\* The memory tables of the devices the transfers run on.
TransferTables ==
    {<<DeviceLocal, HostVisibleCoherent>>,
     <<MemoryPropertyFlags>>,
     <<DeviceLocal, {"HOST_VISIBLE"}>>}

\* The steps of BufferInfo::create that can fail, in order.
CreateSteps ==
    <<"failed to create buffer", "failed to find suitable memory type",
      "Failed to allocate vertex buffer memory!", "Failed to bind buffer">>

\* The results BufferInfo::create can have on this device.
CreateResults(required_memory_properties) ==
    IF AreProperiesSupported(memory_types, MemoryTypeBits(memory_types),
                             required_memory_properties).index = None
    THEN {CreateSteps[1], CreateSteps[2]}
    ELSE {"Ok", CreateSteps[1], CreateSteps[3], CreateSteps[4]}

\* Mutant: a failed BufferInfo::create leaves nothing on the device.
CreatedBufferRolledBack(size, usage, required_memory_properties, r) ==
    IF r # "Ok" THEN <<>>
    ELSE <<[size |-> size,
            usage |-> usage,
            properties |-> required_memory_properties,
            memory |-> TRUE,
            bound |-> TRUE,
            mapped |-> None,
            bytes |-> [k \in 1 .. size |-> Uninitialized]]>>

\* What BufferInfo::create leaves on the device: nothing when create_buffer
\* failed, else the buffer, with memory once allocate_memory succeeded and
\* bound once bind_buffer_memory succeeded.  Nothing is rolled back.
CreatedBuffer(size, usage, required_memory_properties, r) ==
    IF r = CreateSteps[1] THEN <<>>
    ELSE <<[size |-> size,
            usage |-> usage,
            properties |-> required_memory_properties,
            memory |-> r \in {"Ok", CreateSteps[4]},
            bound |-> r = "Ok",
            mapped |-> None,
            bytes |-> [k \in 1 .. size |-> Uninitialized]]>>

\* copy_from_nonoverlapping into a mapping of `mapped` bytes: the bytes of
\* src that fall inside the mapping; the others land outside of it.
HostCopy(bytes, mapped, src) ==
    [k \in 1 .. Len(bytes) |->
        IF k <= Len(src) /\ k <= mapped THEN src[k] ELSE bytes[k]]

\* cmd_copy_buffer with one region {src_offset 0, dst_offset 0, size}.
CopyBuffer(buffers, c) ==
    [buffers EXCEPT ![c.dst].bytes =
        [k \in 1 .. Len(@) |->
            IF k <= c.size /\ k <= Len(buffers[c.src].bytes)
            THEN buffers[c.src].bytes[k] ELSE @[k]]]

\* cmd_copy_buffer_to_image: the texels are read from the buffer; the entry
\* of the history names the layout the image is in when the copy executes.
CopyBufferToImage(images, buffers, c) ==
    [images EXCEPT
        ![c.image].texels = buffers[c.buffer].bytes,
        ![c.image].history =
            Append(@, "copy in " \o images[c.image].layout)]

\* cmd_pipeline_barrier with one image barrier: the image is in new_layout.
PipelineBarrier(images, c) ==
    [images EXCEPT
        ![c.image].layout = c.new_layout,
        ![c.image].history = Append(@, c.new_layout)]

\* The effect of an executed command on the buffers and on the images.
ExecuteOnBuffers(buffers, c) ==
    IF c.op = "copy_buffer" THEN CopyBuffer(buffers, c) ELSE buffers

ExecuteOnImages(images, c) ==
    IF c.op = "copy_buffer_to_image"
    THEN CopyBufferToImage(images, device_buffers, c)
    ELSE IF c.op = "pipeline_barrier" THEN PipelineBarrier(images, c)
    ELSE images

\* queue_wait_idle returns once the queue has no work left.
QueueIdleNoWait == TRUE

QueueIdle == queue_work = <<>>

\* free_command_buffers of the one command buffer.
FreeCommandBuffersNothing(allocated) == allocated

FreeCommandBuffers(allocated) == allocated - 1

\* What the transfers leave alone.
not_transfer == <<frame_vars, memory_vars, uniform_vars, engine_vars>>

\* record_and_submit_single_command is entered with the command f records.
StartOneShot(command) ==
    [NoOneShot EXCEPT !.pc = "allocate",
                      !.command = command,
                      !.pool_before = pool_allocated]

\* The one-shot submission returns r.
OneShotReturn(r) == [oneshot EXCEPT !.pc = "returned", !.result = r]

\* allocate_command_buffers, command_buffer_count 1.
CmdAllocate ==
    /\ oneshot.pc = "allocate"
    /\ \/ /\ pool_allocated' = pool_allocated + 1
          /\ oneshot' = [oneshot EXCEPT !.pc = "begin", !.allocated = 1]
       \/ /\ oneshot' = OneShotReturn("failed to allocate command buffers")
          /\ UNCHANGED pool_allocated
    /\ UNCHANGED <<not_transfer, device_buffers, device_images, queue_work,
                 callers>>

\* begin_command_buffer, ONE_TIME_SUBMIT.
CmdBegin ==
    /\ oneshot.pc = "begin"
    /\ \/ oneshot' = [oneshot EXCEPT !.pc = "record"]
       \/ oneshot' = OneShotReturn("failed to begin command buffer recording")
    /\ UNCHANGED <<not_transfer, device_vars, callers>>

\* f(command_buffer): the closure records its command.
CmdRecord ==
    /\ oneshot.pc = "record"
    /\ oneshot' = [oneshot EXCEPT !.pc = "end", !.recorded = oneshot.command]
    /\ UNCHANGED <<not_transfer, device_vars, callers>>

\* end_command_buffer.
CmdEnd ==
    /\ oneshot.pc = "end"
    /\ \/ oneshot' = [oneshot EXCEPT !.pc = "submit"]
       \/ oneshot' = OneShotReturn("failed to end command buffer recording")
    /\ UNCHANGED <<not_transfer, device_vars, callers>>

\* queue_submit of the one command buffer, without a fence.
CmdSubmit ==
    /\ oneshot.pc = "submit"
    /\ \/ /\ queue_work' = Append(queue_work, oneshot.recorded)
          /\ oneshot' = [oneshot EXCEPT !.pc = "wait_idle"]
       \/ /\ oneshot' = OneShotReturn(
                 "failed to submit command buffer to graphics queue")
          /\ UNCHANGED queue_work
    /\ UNCHANGED <<not_transfer, device_buffers, device_images,
                 pool_allocated, callers>>

\* queue_wait_idle: blocks until the queue is idle, or fails.
CmdWaitIdle ==
    /\ oneshot.pc = "wait_idle"
    /\ \/ /\ QueueIdle
          /\ oneshot' = [oneshot EXCEPT !.pc = "free"]
       \/ oneshot' = OneShotReturn(
              "failed to submit command buffer to graphics queue")
    /\ UNCHANGED <<not_transfer, device_vars, callers>>

\* .map(|_| free_command_buffers(..)): only on success.
CmdFree ==
    /\ oneshot.pc = "free"
    /\ pool_allocated' = FreeCommandBuffers(pool_allocated)
    /\ oneshot' = [OneShotReturn("Ok") EXCEPT !.freed = 1]
    /\ UNCHANGED <<not_transfer, device_buffers, device_images, queue_work,
                 callers>>

\* The GPU executes the oldest batch of the graphics queue.
GpuExecute ==
    /\ queue_work # <<>>
    /\ device_buffers' = ExecuteOnBuffers(device_buffers, Head(queue_work))
    /\ device_images' = ExecuteOnImages(device_images, Head(queue_work))
    /\ queue_work' = Tail(queue_work)
    /\ UNCHANGED <<not_transfer, pool_allocated, oneshot, callers>>

OneShotNext ==
    \/ CmdAllocate
    \/ CmdBegin
    \/ CmdRecord
    \/ CmdEnd
    \/ CmdSubmit
    \/ CmdWaitIdle
    \/ CmdFree
    \/ GpuExecute

-----------------------------------------------------------------------------
\* BufferInfo::create_gpu_local_buffer (src/src/vulkan/buffers.rs).

\* The slices a caller passes: whole elements of elem_size bytes each.
UploadData ==
    {d \in [bytes : UNION {[1 .. n -> Byte] : n \in 1 .. MaxDataBytes},
            elem_size : ElemSizes] :
        Len(d.bytes) % d.elem_size = 0}

\* data.len(), and size_of_val(data).
DataLen(bytes, elem_size) == Len(bytes) \div elem_size

SizeOfVal(bytes, elem_size) == DataLen(bytes, elem_size) * elem_size

\* buffer_size.unwrap_or(default_buffer_size)
UnwrapOr(buffer_size, default_buffer_size) ==
    IF buffer_size = None THEN default_buffer_size ELSE Unwrap(buffer_size)

\* The steps of create_gpu_local_buffer, in the order of its body.
UploadSteps ==
    <<"create_staging", "map", "copy", "unmap", "create_gpu", "copy_to_gpu">>

\* The upload enters a step.
Step(u, step) == [u EXCEPT !.steps = Append(@, step)]

\* The upload returns r: Ok(gpu_buffer), or the error.
UploadReturns(u, r) ==
    [u EXCEPT !.pc = "done", !.result = r,
              !.returned = IF r = "Ok" THEN u.gpu_buffer ELSE None]

\* Mutant: the memory stays mapped.
UnmapNothing(mapped) == mapped

\* unmap_memory: the memory is no longer mapped.
Unmap(mapped) == None

\* A caller enters create_gpu_local_buffer: create_vertex_buffer and
\* create_index_buffer pass None, the texture upload passes Some(image.size).
UploadCall ==
    /\ upload.pc \in {"idle", "done"}
    /\ oneshot.pc = "idle"
    /\ image_call.pc = "idle"
    /\ upload.calls < MaxUploads
    /\ \E d \in UploadData,
          buffer_size \in {None} \cup {Some(n) : n \in 1 .. MaxBufferSize} :
          upload' =
              [NoUpload EXCEPT
                  !.pc = "create_staging",
                  !.data = d.bytes,
                  !.elem_size = d.elem_size,
                  !.buffer_size_arg = buffer_size,
                  !.usage_flag = IF buffer_size = None
                                 THEN "VERTEX_BUFFER" ELSE "TRANSFER_SRC",
                  !.buffer_size =
                      UnwrapOr(buffer_size, SizeOfVal(d.bytes, d.elem_size)),
                  !.buffers_before = Len(device_buffers),
                  !.calls = upload.calls + 1]
    /\ UNCHANGED <<not_transfer, device_vars, oneshot, image_call>>

\* BufferInfo::create of the staging buffer.
CreateStagingBuffer ==
    /\ upload.pc = "create_staging"
    /\ \E r \in CreateResults(HostVisibleCoherent) :
          /\ device_buffers' =
                 device_buffers \o CreatedBuffer(upload.buffer_size,
                     {"TRANSFER_SRC"}, HostVisibleCoherent, r)
          /\ upload' =
                 IF r = "Ok"
                 THEN [Step(upload, "create_staging") EXCEPT
                          !.pc = "map",
                          !.staging_buffer = Some(Len(device_buffers) + 1)]
                 ELSE UploadReturns(Step(upload, "create_staging"), r)
    /\ UNCHANGED <<not_transfer, device_images, pool_allocated, queue_work,
                 oneshot, image_call>>

\* map_memory(staging_buffer.device_memory, 0, buffer_size).
MapStaging ==
    /\ upload.pc = "map"
    /\ \/ /\ device_buffers' =
                 [device_buffers EXCEPT
                     ![Unwrap(upload.staging_buffer)].mapped =
                         Some(upload.buffer_size)]
          /\ upload' = [Step(upload, "map") EXCEPT !.pc = "copy"]
       \/ /\ upload' = UploadReturns(Step(upload, "map"),
                                     "failed to map memory")
          /\ UNCHANGED device_buffers
    /\ UNCHANGED <<not_transfer, device_images, pool_allocated, queue_work,
                 oneshot, image_call>>

\* data_ptr.copy_from_nonoverlapping(data.as_ptr(), data.len()): data.len()
\* elements, whatever the size of the mapping.
CopyToStaging ==
    /\ upload.pc = "copy"
    /\ LET b == Unwrap(upload.staging_buffer)
           n == DataLen(upload.data, upload.elem_size) * upload.elem_size
       IN  /\ device_buffers' =
                  [device_buffers EXCEPT
                      ![b].bytes = HostCopy(@, Unwrap(device_buffers[b].mapped),
                                            SubSeq(upload.data, 1, n))]
           /\ upload' = [Step(upload, "copy") EXCEPT
                             !.pc = "unmap", !.written = n]
    /\ UNCHANGED <<not_transfer, device_images, pool_allocated, queue_work,
                 oneshot, image_call>>

\* unmap_memory(staging_buffer.device_memory)
UnmapStaging ==
    /\ upload.pc = "unmap"
    /\ device_buffers' =
           [device_buffers EXCEPT
               ![Unwrap(upload.staging_buffer)].mapped = Unmap(@)]
    /\ upload' = [Step(upload, "unmap") EXCEPT !.pc = "create_gpu"]
    /\ UNCHANGED <<not_transfer, device_images, pool_allocated, queue_work,
                 oneshot, image_call>>

\* BufferInfo::create of the destination buffer.
CreateGpuBuffer ==
    /\ upload.pc = "create_gpu"
    /\ \E r \in CreateResults(DeviceLocal) :
          /\ device_buffers' =
                 device_buffers \o CreatedBuffer(upload.buffer_size,
                     {"TRANSFER_DST", upload.usage_flag}, DeviceLocal, r)
          /\ upload' =
                 IF r = "Ok"
                 THEN [Step(upload, "create_gpu") EXCEPT
                          !.pc = "copy_to_gpu",
                          !.gpu_buffer = Some(Len(device_buffers) + 1)]
                 ELSE UploadReturns(Step(upload, "create_gpu"), r)
    /\ UNCHANGED <<not_transfer, device_images, pool_allocated, queue_work,
                 oneshot, image_call>>

\* staging_buffer.copy_to_gpu(.., &gpu_buffer): one region of self.size
\* bytes, recorded and submitted by a one-shot submission.
CopyToGpu ==
    /\ upload.pc = "copy_to_gpu"
    /\ oneshot.pc = "idle"
    /\ oneshot' =
           StartOneShot([op |-> "copy_buffer",
                         src |-> Unwrap(upload.staging_buffer),
                         dst |-> Unwrap(upload.gpu_buffer),
                         size |-> device_buffers[
                                      Unwrap(upload.staging_buffer)].size])
    /\ upload' = [Step(upload, "copy_to_gpu") EXCEPT !.pc = "copying"]
    /\ UNCHANGED <<not_transfer, device_vars, image_call>>

\* copy_to_gpu(..)?; Ok(gpu_buffer): the staging buffer is left as it is.
UploadReturn ==
    /\ upload.pc = "copying"
    /\ oneshot.pc = "returned"
    /\ upload' = UploadReturns(upload, oneshot.result)
    /\ oneshot' = NoOneShot
    /\ UNCHANGED <<not_transfer, device_vars, image_call>>

UploadInit ==
    /\ FrameAtRest
    /\ memory_types \in TransferTables
    /\ memory_query = None
    /\ DeviceAtRest
    /\ upload = NoUpload
    /\ image_call = NoImageCall
    /\ EngineAtRest
    /\ UniformAtRest

UploadNext ==
    \/ UploadCall
    \/ CreateStagingBuffer
    \/ MapStaging
    \/ CopyToStaging
    \/ UnmapStaging
    \/ CreateGpuBuffer
    \/ CopyToGpu
    \/ UploadReturn
    \/ OneShotNext

SpecUpload == UploadInit /\ [][UploadNext]_vars

\* The state of the upload and of the device stays in its domain.
UploadTypeOK ==
    /\ upload.calls \in 0 .. MaxUploads
    /\ pool_allocated \in 0 .. MaxUploads
    /\ Len(queue_work) <= MaxUploads
    /\ \A k \in 1 .. Len(device_buffers) :
          Len(device_buffers[k].bytes) = device_buffers[k].size

\* The upload has returned Ok(gpu_buffer).
UploadOk == upload.pc = "done" /\ upload.result = "Ok"

\* The bytes of the buffer an upload returned.
GpuBytes == device_buffers[Unwrap(upload.gpu_buffer)].bytes

\* The buffers created as staging buffers that are still on the device.
StagingBuffers ==
    {k \in 1 .. Len(device_buffers) :
        device_buffers[k].usage = {"TRANSFER_SRC"}}

\* C12: for every non-empty data array, after create_gpu_local_buffer has
\* returned success the destination buffer holds, from offset 0, exactly
\* the bytes of data in order.
C12_RoundTrip ==
    UploadOk =>
        /\ Len(GpuBytes) >= Len(upload.data)
        /\ \A k \in 1 .. Len(upload.data) : GpuBytes[k] = upload.data[k]

\* C13: when a one-shot submission or an upload returns success, the queue
\* was waited idle after the submit: no work is pending on the graphics
\* queue and the copy of the upload has been executed.
C13_UploadIsSynchronous ==
    /\ (oneshot.pc = "returned" /\ oneshot.result = "Ok") =>
           queue_work = <<>>
    /\ UploadOk =>
           /\ queue_work = <<>>
           /\ GpuBytes =
                  device_buffers[Unwrap(upload.staging_buffer)].bytes

\* C13 witness: an upload has returned success, the queue is idle and the
\* destination holds the two bytes that were staged.
C13_Witness ==
    /\ UploadOk
    /\ queue_work = <<>>
    /\ upload.data = <<"a", "b">>
    /\ GpuBytes = <<"a", "b">>

\* C14: in every upload the staging buffer, the mapped range, the
\* destination buffer and the copy region each have a size equal to the
\* byte length of the data passed in.
C14_AllSizesEqualDataByteLength ==
    LET n == Len(upload.data)
    IN  /\ \A b \in upload.staging_buffer :
              /\ device_buffers[b].size = n
              /\ \A m \in device_buffers[b].mapped : m = n
        /\ \A g \in upload.gpu_buffer : device_buffers[g].size = n
        /\ upload.pc = "copying" /\ oneshot.pc # "idle" =>
              oneshot.command.size = n

\* C15: once the copy of an upload has completed the staging buffer and its
\* memory are released: after an upload has returned success no staging
\* buffer remains on the device.
C15_NoStagingBufferRemains == UploadOk => StagingBuffers = {}

\* C16 as stated: every one-shot submission that has returned allocated
\* exactly one command buffer and freed it, leaving the number of command
\* buffers allocated from the pool as it was before the call.
C16_Original ==
    oneshot.pc = "returned" =>
        /\ oneshot.allocated = 1
        /\ oneshot.freed = 1
        /\ pool_allocated = oneshot.pool_before

\* C16: a one-shot submission that returns success allocated exactly one
\* command buffer and has freed it, so the pool holds as many command
\* buffers as before the call; one that returns an error has freed nothing,
\* and the pool holds the command buffer it allocated, if it allocated one.
C16_CommandBufferFreedOnSuccess ==
    oneshot.pc = "returned" =>
        IF oneshot.result = "Ok"
        THEN /\ oneshot.allocated = 1
             /\ oneshot.freed = 1
             /\ pool_allocated = oneshot.pool_before
        ELSE /\ oneshot.allocated \in {0, 1}
             /\ oneshot.freed = 0
             /\ pool_allocated = oneshot.pool_before + oneshot.allocated

\* C16 witness: a one-shot submission has returned success: it allocated
\* one command buffer, has freed it, and the pool is as before the call.
C16_Witness ==
    /\ oneshot.pc = "returned"
    /\ oneshot.result = "Ok"
    /\ oneshot.allocated = 1
    /\ oneshot.freed = 1
    /\ pool_allocated = oneshot.pool_before

\* The upload has returned an error.
UploadFailed == upload.pc = "done" /\ upload.result # "Ok"

\* The step the upload is in, or returned from.
LastStep == upload.steps[Len(upload.steps)]

\* The buffers the steps of this upload put on the device: BufferInfo::create
\* leaves a buffer unless its create_buffer failed.
CreatedByUpload ==
    Cardinality({k \in 1 .. Len(upload.steps) :
        /\ upload.steps[k] \in {"create_staging", "create_gpu"}
        /\ ~(k = Len(upload.steps) /\ upload.result = CreateSteps[1])})

\* C24: when a step of an upload fails, create_gpu_local_buffer returns the
\* failure of that step and no GPU buffer, the failing step is the last
\* step it executes, and what the earlier steps and the failing step put
\* on the device is still there.
C24_FailureReturnedNothingRolledBack ==
    UploadFailed =>
       /\ upload.returned = None
       /\ upload.steps = SubSeq(UploadSteps, 1, Len(upload.steps))
       /\ LastStep \in {"create_staging", "map", "create_gpu", "copy_to_gpu"}
       /\ LastStep \in {"create_staging", "create_gpu"} <=>
              upload.result \in {CreateSteps[k] : k \in 1 .. 4}
       /\ LastStep = "map" <=> upload.result = "failed to map memory"
       /\ Len(device_buffers) = upload.buffers_before + CreatedByUpload
       /\ \A k \in upload.staging_buffer \cup upload.gpu_buffer :
              /\ k \in (upload.buffers_before + 1) .. Len(device_buffers)
              /\ device_buffers[k].memory
              /\ device_buffers[k].bound
       /\ upload.result \in {CreateSteps[3], CreateSteps[4]} =>
              ~device_buffers[Len(device_buffers)].bound

\* C24 witness: the destination buffer's memory allocation failed after the
\* staging buffer was created and filled; the staging buffer and the
\* destination buffer without memory are on the device.
C24_Witness ==
    /\ UploadFailed
    /\ upload.result = "Failed to allocate vertex buffer memory!"
    /\ LastStep = "create_gpu"
    /\ upload.staging_buffer # None
    /\ upload.written > 0
    /\ Len(device_buffers) = upload.buffers_before + 2

\* C28: create_gpu_local_buffer goes through create staging buffer
\* (TRANSFER_SRC, host-visible and host-coherent), map, copy, unmap, create
\* destination buffer (device-local, usage | TRANSFER_DST), GPU copy, in
\* this order; memory is mapped only from the map to the unmap, so it is
\* unmapped before the GPU copy is submitted and when the upload returns,
\* with a failure or not.
C28_UploadStepOrder ==
    /\ upload.steps = SubSeq(UploadSteps, 1, Len(upload.steps))
    /\ UploadOk => upload.steps = UploadSteps
    /\ \A k \in upload.staging_buffer :
          /\ device_buffers[k].usage = {"TRANSFER_SRC"}
          /\ device_buffers[k].properties = HostVisibleCoherent
    /\ \A k \in upload.gpu_buffer :
          /\ device_buffers[k].usage = {"TRANSFER_DST", upload.usage_flag}
          /\ device_buffers[k].properties = DeviceLocal
          /\ upload.staging_buffer # None
          /\ k > Unwrap(upload.staging_buffer)
    /\ \A k \in 1 .. Len(device_buffers) :
          device_buffers[k].mapped # None =>
             /\ upload.staging_buffer = Some(k)
             /\ upload.pc \in {"copy", "unmap"}
             /\ upload.gpu_buffer = None
             /\ oneshot.pc = "idle"
    /\ (upload.pc = "done" \/ oneshot.pc # "idle") =>
          \A k \in 1 .. Len(device_buffers) : device_buffers[k].mapped = None

\* C28 witness: the GPU copy is submitted, after the six steps in order,
\* from a staging buffer that was written and is not mapped.
C28_Witness ==
    /\ upload.pc = "copying"
    /\ oneshot.pc = "wait_idle"
    /\ upload.steps = UploadSteps
    /\ upload.written > 0
    /\ device_buffers[Unwrap(upload.staging_buffer)].mapped = None

-----------------------------------------------------------------------------
\* Images and their layout transitions (src/src/vulkan/image.rs).

MaxImageCalls == 2

ImageLayouts ==
    {"UNDEFINED", "GENERAL", "TRANSFER_DST_OPTIMAL",
     "SHADER_READ_ONLY_OPTIMAL", "DEPTH_STENCIL_ATTACHMENT_OPTIMAL",
     "COLOR_ATTACHMENT_OPTIMAL"}

\* The barrier of a supported transition.
Barrier(src_access_mask, dst_access_mask, source_stage, destination_stage) ==
    [error |-> "Ok",
     src_access_mask |-> src_access_mask,
     dst_access_mask |-> dst_access_mask,
     source_stage |-> source_stage,
     destination_stage |-> destination_stage]

Unsupported(message) ==
    [error |-> message,
     src_access_mask |-> {}, dst_access_mask |-> {},
     source_stage |-> "NONE", destination_stage |-> "NONE"]

\* A table that accepts every pair.
FromLayoutAnyPair(old_layout, new_layout) ==
    Barrier({}, {"TRANSFER_WRITE"}, "TOP_OF_PIPE", "TRANSFER")

\* TransitionBarrier::from_layout
FromLayout(old_layout, new_layout) ==
    IF old_layout = "UNDEFINED"
    THEN CASE new_layout = "TRANSFER_DST_OPTIMAL" ->
                  Barrier({}, {"TRANSFER_WRITE"}, "TOP_OF_PIPE", "TRANSFER")
           [] new_layout = "DEPTH_STENCIL_ATTACHMENT_OPTIMAL" ->
                  Barrier({}, {"DEPTH_STENCIL_ATTACHMENT_READ",
                               "DEPTH_STENCIL_ATTACHMENT_WRITE"},
                          "TOP_OF_PIPE", "EARLY_FRAGMENT_TESTS")
           [] new_layout = "COLOR_ATTACHMENT_OPTIMAL" ->
                  Barrier({}, {"COLOR_ATTACHMENT_READ",
                               "COLOR_ATTACHMENT_WRITE"},
                          "TOP_OF_PIPE", "COLOR_ATTACHMENT_OUTPUT")
           [] OTHER -> Unsupported("unsupported new_layout for transition")
    ELSE IF /\ old_layout = "TRANSFER_DST_OPTIMAL"
            /\ new_layout = "SHADER_READ_ONLY_OPTIMAL"
         THEN Barrier({"TRANSFER_WRITE"}, {"SHADER_READ"},
                      "TRANSFER", "FRAGMENT_SHADER")
         ELSE Unsupported("unsupported old_layout for transition")

\* One step of perform_transition: a layout transition or the copy.
Transition(old_layout, new_layout) ==
    [op |-> "transition", old_layout |-> old_layout, new_layout |-> new_layout]

CopyStep ==
    [op |-> "copy", old_layout |-> "TRANSFER_DST_OPTIMAL",
     new_layout |-> "TRANSFER_DST_OPTIMAL"]

\* The copy issued before the image is made a transfer destination.
CopyBufferToImageCopyFirst ==
    <<CopyStep,
      Transition("UNDEFINED", "TRANSFER_DST_OPTIMAL"),
      Transition("TRANSFER_DST_OPTIMAL", "SHADER_READ_ONLY_OPTIMAL")>>

\* ImagePropertyType::copy_buffer_to_image: the steps of a texture image.
CopyBufferToImageSteps ==
    <<Transition("UNDEFINED", "TRANSFER_DST_OPTIMAL"),
      CopyStep,
      Transition("TRANSFER_DST_OPTIMAL", "SHADER_READ_ONLY_OPTIMAL")>>

\* perform_transition of a depth image.
DepthSteps ==
    <<Transition("UNDEFINED", "DEPTH_STENCIL_ATTACHMENT_OPTIMAL")>>

\* ImageType::perform_transition
PerformTransition(kind) ==
    IF kind = "texture" THEN CopyBufferToImageSteps ELSE DepthSteps

\* The results ImageData::create_image can have.
CreateImageSteps ==
    <<"Failed to create texture image!",
      "failed to find suitable memory type",
      "failed to allocate texture image memory!",
      "Failed to bind image memory!">>

CreateImageResults ==
    IF AreProperiesSupported(memory_types, MemoryTypeBits(memory_types),
                             DeviceLocal).index = None
    THEN {CreateImageSteps[1], CreateImageSteps[2]}
    ELSE {"Ok", CreateImageSteps[1], CreateImageSteps[3], CreateImageSteps[4]}

\* What create_image leaves on the device; initial_layout is UNDEFINED.
CreatedImage(r) ==
    IF r = CreateImageSteps[1] THEN <<>>
    ELSE <<[layout |-> "UNDEFINED",
            memory |-> r \in {"Ok", CreateImageSteps[4]},
            bound |-> r = "Ok",
            view |-> FALSE,
            texels |-> <<>>,
            history |-> <<>>]>>

\* What the creation of an image leaves alone.
not_image == <<not_transfer, upload>>

\* The call returns r.
ImageReturns(r) == [image_call EXCEPT !.pc = "done", !.result = r]

\* The buffers that hold the texels of a loaded texture.
TextureBuffers ==
    {k \in 1 .. Len(device_buffers) :
        /\ device_buffers[k].bound
        /\ device_buffers[k].usage = {"TRANSFER_DST", "TRANSFER_SRC"}}

\* ImageData::new is entered for a depth image, or for a texture image
\* whose texels texture_property has uploaded into a buffer.
ImageNew ==
    /\ image_call.pc \in {"idle", "done"}
    /\ upload.pc \in {"idle", "done"}
    /\ oneshot.pc = "idle"
    /\ image_call.calls < MaxImageCalls
    /\ \E kind \in {"texture", "depth"} :
       \E buffer \in IF kind = "texture"
                     THEN {Some(k) : k \in TextureBuffers} ELSE {None} :
          image_call' =
              [NoImageCall EXCEPT
                  !.pc = "create_image",
                  !.kind = kind,
                  !.buffer = buffer,
                  !.steps = PerformTransition(kind),
                  !.pool_before = pool_allocated,
                  !.calls = image_call.calls + 1]
    /\ UNCHANGED <<not_image, device_vars, oneshot>>

\* ImageData::create_image, DEVICE_LOCAL.
CreateImage ==
    /\ image_call.pc = "create_image"
    /\ \E r \in CreateImageResults :
          /\ device_images' = device_images \o CreatedImage(r)
          /\ image_call' =
                 IF r = "Ok"
                 THEN [image_call EXCEPT
                          !.pc = "transition",
                          !.image = Some(Len(device_images) + 1)]
                 ELSE ImageReturns(r)
    /\ UNCHANGED <<not_image, device_buffers, pool_allocated, queue_work,
                   oneshot>>

\* A caller enters transition_image_layout for an image of the device.
TransitionCall ==
    /\ image_call.pc \in {"idle", "done"}
    /\ upload.pc \in {"idle", "done"}
    /\ oneshot.pc = "idle"
    /\ image_call.calls < MaxImageCalls
    /\ \E image \in 1 .. Len(device_images),
          old_layout \in ImageLayouts, new_layout \in ImageLayouts :
          image_call' =
              [NoImageCall EXCEPT
                  !.pc = "transition",
                  !.kind = "transition",
                  !.image = Some(image),
                  !.steps = <<Transition(old_layout, new_layout)>>,
                  !.pool_before = pool_allocated,
                  !.calls = image_call.calls + 1]
    /\ UNCHANGED <<not_image, device_vars, oneshot>>

\* The command a step records.
StepCommand(st) ==
    IF st.op = "copy"
    THEN [op |-> "copy_buffer_to_image",
          buffer |-> Unwrap(image_call.buffer),
          image |-> Unwrap(image_call.image),
          layout |-> st.new_layout]
    ELSE [op |-> "pipeline_barrier",
          image |-> Unwrap(image_call.image),
          old_layout |-> st.old_layout,
          new_layout |-> st.new_layout,
          barrier |-> FromLayout(st.old_layout, st.new_layout)]

\* transition_image_layout, or the copy of copy_buffer_to_image: from_layout
\* is asked first and its error returned; else the command goes to a
\* one-shot submission.
StartStep ==
    /\ image_call.pc = "transition"
    /\ oneshot.pc = "idle"
    /\ LET st == image_call.steps[image_call.step]
           unsupported == /\ st.op = "transition"
                          /\ FromLayout(st.old_layout,
                                        st.new_layout).error # "Ok"
       IN  IF unsupported
           THEN /\ image_call' =
                       ImageReturns(FromLayout(st.old_layout,
                                               st.new_layout).error)
                /\ UNCHANGED oneshot
           ELSE /\ oneshot' = StartOneShot(StepCommand(st))
                /\ image_call' =
                       [image_call EXCEPT
                           !.pc = "in_step",
                           !.oneshots = image_call.oneshots + 1]
    /\ UNCHANGED <<not_image, device_vars>>

\* The one-shot submission of a step has returned: an error is returned
\* with ?, else the next step follows, and the image view after the last.
StepReturn ==
    /\ image_call.pc = "in_step"
    /\ oneshot.pc = "returned"
    /\ image_call' =
           IF oneshot.result # "Ok" THEN ImageReturns(oneshot.result)
           ELSE IF image_call.step < Len(image_call.steps)
                THEN [image_call EXCEPT !.pc = "transition",
                                        !.step = image_call.step + 1]
           ELSE IF image_call.kind = "transition" THEN ImageReturns("Ok")
           ELSE [image_call EXCEPT !.pc = "create_view"]
    /\ oneshot' = NoOneShot
    /\ UNCHANGED <<not_image, device_vars>>

\* ImageData::create_image_view, then Ok(ImageData {..}).
CreateImageView ==
    /\ image_call.pc = "create_view"
    /\ \/ /\ device_images' =
                 [device_images EXCEPT
                     ![Unwrap(image_call.image)].view = TRUE]
          /\ image_call' = ImageReturns("Ok")
       \/ /\ image_call' = ImageReturns("Failed to create image view!")
          /\ UNCHANGED device_images
    /\ UNCHANGED <<not_image, device_buffers, pool_allocated, queue_work,
                   oneshot>>

\* The texels of the textures loaded.
TextureTexels == {<<"a", "b">>, <<"b", "a">>}

\* The buffers a successful texture upload leaves on the device: the
\* staging buffer and the buffer texture_property keeps.
UploadedTexture(texels) ==
    <<[CreatedBuffer(Len(texels), {"TRANSFER_SRC"}, HostVisibleCoherent,
                     "Ok")[1] EXCEPT !.bytes = texels],
      [CreatedBuffer(Len(texels), {"TRANSFER_DST", "TRANSFER_SRC"},
                     DeviceLocal, "Ok")[1] EXCEPT !.bytes = texels]>>

\* The images are created after the textures were uploaded, if any was.
ImageInit ==
    /\ FrameAtRest
    /\ memory_types \in TransferTables
    /\ memory_query = None
    /\ device_buffers \in
           {<<>>} \cup
           IF "Ok" \in CreateResults(HostVisibleCoherent)
           THEN {UploadedTexture(t) : t \in TextureTexels} ELSE {}
    /\ device_images = <<>>
    /\ pool_allocated = 0
    /\ queue_work = <<>>
    /\ oneshot = NoOneShot
    /\ upload = NoUpload
    /\ image_call = NoImageCall
    /\ EngineAtRest
    /\ UniformAtRest

ImageNext ==
    \/ ImageNew
    \/ CreateImage
    \/ TransitionCall
    \/ StartStep
    \/ StepReturn
    \/ CreateImageView
    \/ OneShotNext

SpecImage == ImageInit /\ [][ImageNext]_vars

\* The pair of layouts a caller of transition_image_layout passed.
CalledPair ==
    <<image_call.steps[1].old_layout, image_call.steps[1].new_layout>>

\* C17: transition_image_layout succeeds only for the four pairs
\* UNDEFINED -> TRANSFER_DST_OPTIMAL, UNDEFINED ->
\* DEPTH_STENCIL_ATTACHMENT_OPTIMAL, UNDEFINED -> COLOR_ATTACHMENT_OPTIMAL and
\* TRANSFER_DST_OPTIMAL -> SHADER_READ_ONLY_OPTIMAL; for every other pair it
\* returns an unsupported-transition error and no command buffer is
\* allocated, recorded or submitted.
C17_OnlySupportedTransitionsSucceed ==
    LET supported ==
            {<<"UNDEFINED", "TRANSFER_DST_OPTIMAL">>,
             <<"UNDEFINED", "DEPTH_STENCIL_ATTACHMENT_OPTIMAL">>,
             <<"UNDEFINED", "COLOR_ATTACHMENT_OPTIMAL">>,
             <<"TRANSFER_DST_OPTIMAL", "SHADER_READ_ONLY_OPTIMAL">>}
    IN  image_call.kind = "transition" =>
            /\ image_call.pc = "done" /\ image_call.result = "Ok" =>
                   CalledPair \in supported
            /\ CalledPair \notin supported =>
                   /\ image_call.oneshots = 0
                   /\ oneshot = NoOneShot
                   /\ pool_allocated = image_call.pool_before
                   /\ image_call.pc = "done" =>
                          image_call.result \in
                              {"unsupported new_layout for transition",
                               "unsupported old_layout for transition"}

\* C17 witness: the call for COLOR_ATTACHMENT_OPTIMAL -> UNDEFINED has
\* returned the error without a one-shot submission.
C17_Witness ==
    /\ image_call.kind = "transition"
    /\ image_call.pc = "done"
    /\ CalledPair = <<"COLOR_ATTACHMENT_OPTIMAL", "UNDEFINED">>
    /\ image_call.result = "unsupported old_layout for transition"
    /\ image_call.oneshots = 0

\* s is a prefix of t.
IsPrefix(s, t) == Len(s) <= Len(t) /\ SubSeq(t, 1, Len(s)) = s

\* C18: the image ImageData::new creates goes through, for a texture,
\* UNDEFINED -> TRANSFER_DST_OPTIMAL, the copy while in TRANSFER_DST_OPTIMAL,
\* then SHADER_READ_ONLY_OPTIMAL, and for a depth image through the single
\* transition to DEPTH_STENCIL_ATTACHMENT_OPTIMAL without a copy; a step is
\* started only when the steps before it have been executed; a failed step
\* ends the call with no later step; and the call returns an image only in
\* the final layout of its variant.
C18_LayoutSequenceOfNewImage ==
    LET expected ==
            IF image_call.kind = "texture"
            THEN <<"TRANSFER_DST_OPTIMAL", "copy in TRANSFER_DST_OPTIMAL",
                   "SHADER_READ_ONLY_OPTIMAL">>
            ELSE <<"DEPTH_STENCIL_ATTACHMENT_OPTIMAL">>
    IN  image_call.kind \in {"texture", "depth"} =>
          \A i \in image_call.image :
            LET img == device_images[i]
            IN  /\ IsPrefix(img.history, expected)
                /\ image_call.pc = "transition" =>
                       Len(img.history) = image_call.step - 1
                /\ image_call.pc = "in_step" =>
                       Len(img.history) \in
                           {image_call.step - 1, image_call.step}
                /\ image_call.pc = "create_view" => img.history = expected
                /\ image_call.kind = "depth" => img.texels = <<>>
                /\ image_call.pc = "done" =>
                       IF image_call.result = "Ok"
                       THEN /\ img.history = expected
                            /\ img.layout = expected[Len(expected)]
                            /\ img.view
                            /\ image_call.kind = "texture" =>
                                   img.texels =
                                       device_buffers[
                                           Unwrap(image_call.buffer)].bytes
                       ELSE /\ oneshot = NoOneShot
                            /\ ~img.view

\* C18 witness: a texture image has been returned in SHADER_READ_ONLY_OPTIMAL
\* with its texels copied, after a depth image was created.
C18_Witness ==
    /\ image_call.kind = "texture"
    /\ image_call.pc = "done"
    /\ image_call.result = "Ok"
    /\ image_call.image = Some(2)
    /\ device_images[1].layout = "DEPTH_STENCIL_ATTACHMENT_OPTIMAL"
    /\ device_images[2].layout = "SHADER_READ_ONLY_OPTIMAL"
    /\ device_images[2].texels = <<"a", "b">>

-----------------------------------------------------------------------------
\* The per-frame uniform data: UniformBuffers::update_buffer
\* (src/src/vulkan/buffers.rs) and UniformBuffer::update (src/src/app.rs).

MaxUniformCalls == 3

\* size_of::<Self::Data>(), in fields: model, view, proj.
SizeOfData == 3

\* delta_time of a tick, in microseconds: subsec_micros() / 1000_000.
DeltaTimes == {0, 1, MicrosPerSecond \div 2, MicrosPerSecond - 1}

\* A rotation that advances by one microsecond more than it is given.
UpdateOneMore(model, delta_time) ==
    (model + QuarterTurn * (delta_time + 1)) % FullTurn

\* UniformBuffer::update: from_axis_angle(z, Deg(90.0) * delta_time) * model
\* is the rotation about z by the sum of the two angles.
Update(model, delta_time) == (model + QuarterTurn * delta_time) % FullTurn

\* UniformBuffer::get_data: the three matrices, one per field.
GetData(model) == <<{model}, {"view"}, {"proj"}>>

\* A mapping of the first field only.
BufferSizeOneField == SizeOfData - 2

\* let buffer_size = size_of::<Self::Data>()
BufferSize == SizeOfData

\* UniformBuffers::create: a host-visible buffer of size_of::<Data>() that
\* nothing was written to.
CreateUniformBuffer ==
    [size |-> SizeOfData, mapped |-> None,
     bytes |-> [k \in 1 .. SizeOfData |-> {}]]

\* update_buffer returns r.
UniformReturns(r) == [uniform EXCEPT !.pc = "done", !.result = r]

not_uniform ==
    <<frame_vars, memory_vars, device_vars, oneshot, callers, engine_vars>>

\* draw_next_frame enters update_buffer with the uniform buffer of the
\* acquired image and the time elapsed.
UpdateBufferCall ==
    /\ uniform.pc \in {"idle", "done"}
    /\ uniform.calls < MaxUniformCalls
    /\ \E i \in 1 .. Len(uniform_buffers), delta_time \in DeltaTimes :
          uniform' =
              [uniform EXCEPT
                  !.pc = "update",
                  !.delta_time = delta_time,
                  !.uniform_buffer = Some(i),
                  !.data = <<>>,
                  !.model_before = Some(uniform.model),
                  !.unchanged_since =
                      IF delta_time # 0 THEN None
                      ELSE IF @ = None THEN Some(uniform.model) ELSE @,
                  !.steps = <<>>,
                  !.result = "NONE",
                  !.calls = uniform.calls + 1]
    /\ UNCHANGED <<not_uniform, uniform_buffers>>

\* self.update(delta_time); let data = [self.get_data()];
UpdateSnapshot ==
    /\ uniform.pc = "update"
    /\ LET model == Update(uniform.model, uniform.delta_time)
       IN  uniform' = [uniform EXCEPT !.pc = "map",
                                      !.model = model,
                                      !.data = GetData(model),
                                      !.steps = Append(@, "update")]
    /\ UNCHANGED <<not_uniform, uniform_buffers>>

\* map_memory(uniform_buffer.device_memory, 0, buffer_size)
MapUniform ==
    /\ uniform.pc = "map"
    /\ \/ /\ uniform_buffers' =
                 [uniform_buffers EXCEPT
                     ![Unwrap(uniform.uniform_buffer)].mapped =
                         Some(BufferSize)]
          /\ uniform' = [uniform EXCEPT !.pc = "copy",
                                        !.steps = Append(@, "map")]
       \/ /\ uniform' = UniformReturns("failed to map memory")
          /\ UNCHANGED uniform_buffers
    /\ UNCHANGED not_uniform

\* data_ptr.copy_from_nonoverlapping(data.as_ptr(), data.len()): one Data.
CopyUniform ==
    /\ uniform.pc = "copy"
    /\ LET b == Unwrap(uniform.uniform_buffer)
       IN  uniform_buffers' =
               [uniform_buffers EXCEPT
                   ![b].bytes = HostCopy(@, Unwrap(uniform_buffers[b].mapped),
                                         uniform.data)]
    /\ uniform' = [uniform EXCEPT !.pc = "unmap", !.steps = Append(@, "copy")]
    /\ UNCHANGED not_uniform

\* device.unmap_memory(uniform_buffer.device_memory); Ok(())
UnmapUniform ==
    /\ uniform.pc = "unmap"
    /\ uniform_buffers' =
           [uniform_buffers EXCEPT
               ![Unwrap(uniform.uniform_buffer)].mapped = None]
    /\ uniform' = [UniformReturns("Ok") EXCEPT !.steps = Append(@, "unmap")]
    /\ UNCHANGED not_uniform

\* One uniform buffer per swapchain image, created by BufferDetails::new.
UniformInit ==
    /\ FrameAtRest
    /\ MemoryAtRest
    /\ DeviceAtRest
    /\ upload = NoUpload
    /\ image_call = NoImageCall
    /\ EngineAtRest
    /\ \E n \in 1 .. MaxImages :
          uniform_buffers = [i \in 1 .. n |-> CreateUniformBuffer]
    /\ uniform = NoUniformCall

UniformNext ==
    \/ UpdateBufferCall
    \/ UpdateSnapshot
    \/ MapUniform
    \/ CopyUniform
    \/ UnmapUniform

SpecUniform == UniformInit /\ [][UniformNext]_vars

\* C19: after a successful update_buffer the target uniform buffer holds
\* the whole snapshot as advanced by delta_time, the steps were update, map,
\* copy, unmap in this order, and no uniform buffer is mapped when the call
\* has returned; a buffer never holds a part of a snapshot.
C19_WholeSnapshotWritten ==
    /\ IsPrefix(uniform.steps, <<"update", "map", "copy", "unmap">>)
    /\ \A k \in 1 .. Len(uniform_buffers) :
          /\ uniform.pc \in {"idle", "done"} =>
                 uniform_buffers[k].mapped = None
          /\ \/ \A f \in 1 .. SizeOfData : uniform_buffers[k].bytes[f] = {}
             \/ \A f \in 1 .. SizeOfData : uniform_buffers[k].bytes[f] # {}
    /\ uniform.pc = "done" /\ uniform.result = "Ok" =>
          /\ uniform.steps = <<"update", "map", "copy", "unmap">>
          /\ uniform_buffers[Unwrap(uniform.uniform_buffer)].bytes =
                 <<{(Unwrap(uniform.model_before)
                        + 90 * uniform.delta_time) % 360000000},
                   {"view"}, {"proj"}>>

\* C19 witness: the second update of the same buffer has returned, with the
\* buffer holding the snapshot turned by the two delta times.
C19_Witness ==
    /\ uniform.pc = "done"
    /\ uniform.result = "Ok"
    /\ uniform.calls = 2
    /\ uniform.delta_time = 500000
    /\ uniform.model = 180000000
    /\ uniform_buffers[1].bytes = <<{180000000}, {"view"}, {"proj"}>>
    /\ uniform_buffers[1].mapped = None

\* C20: while update is called with delta_time = 0, any number of times in
\* a row, the rotation angle of the snapshot stays what it was before the
\* first of these calls.
C20_ZeroDeltaLeavesAngle ==
    \A angle \in uniform.unchanged_since :
        uniform.delta_time = 0 /\ uniform.model = angle

\* C20 witness: after an update that turned the snapshot, two updates with
\* delta_time = 0 have been made and the angle is the one they started from.
C20_Witness ==
    /\ uniform.calls = 3
    /\ uniform.pc = "done"
    /\ uniform.delta_time = 0
    /\ uniform.unchanged_since = Some(135000000)
    /\ uniform.model_before = Some(135000000)
    /\ uniform.model = 135000000


-----------------------------------------------------------------------------
\* BufferDetails::new (src/src/vulkan/buffers.rs): the per-image resources.

\* The vertices (a struct each) and the indices passed to BufferDetails::new.
VertexData == {d \in UploadData : d.elem_size = 2}
IndexData == {d \in UploadData : d.elem_size = 1}

\* cmd_draw_indexed(command_buffer, 6u32, 1, 0, 0, 0)
DrawIndexCount == 6

\* What BufferDetails::new leaves alone.
not_details == <<frame_vars, memory_vars, uniform, image_call, timer>>

\* BufferDetails::new returns r.
DetailsReturns(r) == [buffer_details EXCEPT !.pc = "done", !.result = r]

\* create_framebuffer for the image view: one attachment.
Framebuffer(image_view) == [image_view |-> image_view]

\* create_descriptor_pool(device, pool_size_count)
DescriptorPool(pool_size_count) ==
    [descriptor_count |-> pool_size_count, max_sets |-> pool_size_count,
     allocated |-> 0]

\* Mutant: every descriptor set is written with the first uniform buffer.
WriteDescriptorSetsFirstBuffer(buffers, num_sets) ==
    [k \in 1 .. num_sets |->
        [buffer |-> buffers[1], offset |-> 0, range |-> SizeOfData]]

\* uniform_buffers.iter().zip(descriptor_sets): set k is written with
\* buffer k, offset 0, range size_of::<Data>().
WriteDescriptorSets(buffers, num_sets) ==
    [k \in 1 .. (IF Len(buffers) < num_sets THEN Len(buffers) ELSE num_sets)
        |-> [buffer |-> buffers[k], offset |-> 0, range |-> SizeOfData]]

\* The commands the closure of create_command_buffers records, in order.
RenderCommands ==
    <<"cmd_begin_render_pass", "cmd_bind_pipeline", "cmd_bind_vertex_buffers",
      "cmd_bind_index_buffer", "cmd_bind_descriptor_sets", "cmd_draw_indexed",
      "cmd_end_render_pass">>

\* Mutant: the draw is recorded after the render pass has ended, and every
\* command buffer renders into the first framebuffer.
RecordedCommandsDrawLast(i, vertex_buffer, index_buffer) ==
    [commands |-> <<"begin_command_buffer", "cmd_begin_render_pass",
                    "cmd_bind_pipeline", "cmd_bind_vertex_buffers",
                    "cmd_bind_index_buffer", "cmd_bind_descriptor_sets",
                    "cmd_end_render_pass", "cmd_draw_indexed",
                    "end_command_buffer">>,
     framebuffer |-> 1,
     vertex_buffer |-> vertex_buffer,
     index_buffer |-> index_buffer,
     descriptor_set |-> i,
     index_count |-> 6]

\* The commands recorded into command buffer i (counted from 1):
\* begin_command_buffer, the closure, end_command_buffer.
RecordedCommands(i, vertex_buffer, index_buffer) ==
    [commands |-> <<"begin_command_buffer">> \o RenderCommands
                      \o <<"end_command_buffer">>,
     framebuffer |-> i,
     vertex_buffer |-> vertex_buffer,
     index_buffer |-> index_buffer,
     descriptor_set |-> i,
     index_count |-> DrawIndexCount]

\* Command buffer i when its recording fails: nothing is recorded when
\* begin_command_buffer fails, and the recording is left open when
\* end_command_buffer fails.
FailedRecording(i, vertex_buffer, index_buffer, err) ==
    [RecordedCommands(i, vertex_buffer, index_buffer) EXCEPT
        !.commands = IF err = "failed to begin recording command buffer"
                     THEN <<>>
                     ELSE <<"begin_command_buffer">> \o RenderCommands]

\* create_gpu_local_buffer is entered with data, None.
StartUpload(d, usage_flag) ==
    [NoUpload EXCEPT
        !.pc = "create_staging",
        !.data = d.bytes,
        !.elem_size = d.elem_size,
        !.buffer_size_arg = None,
        !.usage_flag = usage_flag,
        !.buffer_size = UnwrapOr(None, SizeOfVal(d.bytes, d.elem_size)),
        !.buffers_before = Len(device_buffers),
        !.calls = upload.calls + 1]

\* BufferDetails::new is called once the swapchain has its image views.
DetailsCall ==
    /\ buffer_details.pc = "idle"
    /\ buffer_details' = [buffer_details EXCEPT !.pc = "framebuffers"]
    /\ UNCHANGED <<not_details, device_vars, oneshot, upload, uniform_buffers>>

\* create_framebuffers: one framebuffer per image view, up to the first
\* create_framebuffer that fails.
CreateFramebuffers ==
    /\ buffer_details.pc = "framebuffers"
    /\ \/ buffer_details' =
             [buffer_details EXCEPT
                 !.pc = "command_pool",
                 !.framebuffers = [i \in 1 .. num_images |-> Framebuffer(i)]]
       \/ \E failed \in 1 .. num_images :
             buffer_details' =
                 [DetailsReturns("failed to create framebuffer") EXCEPT
                     !.framebuffers =
                         [i \in 1 .. (failed - 1) |-> Framebuffer(i)]]
    /\ UNCHANGED <<not_details, device_vars, oneshot, upload, uniform_buffers>>

\* create_command_pool
CreateCommandPool ==
    /\ buffer_details.pc = "command_pool"
    /\ \/ buffer_details' = [buffer_details EXCEPT !.pc = "vertex_buffer",
                                                   !.command_pool = TRUE]
       \/ buffer_details' = DetailsReturns("Failed to create command pool!")
    /\ UNCHANGED <<not_details, device_vars, oneshot, upload, uniform_buffers>>

\* create_vertex_buffer(device, command_pool, graphics_queue, &vertex_data)
CreateVertexBuffer ==
    /\ buffer_details.pc = "vertex_buffer"
    /\ \E d \in VertexData : upload' = StartUpload(d, "VERTEX_BUFFER")
    /\ buffer_details' = [buffer_details EXCEPT !.pc = "vertex_upload"]
    /\ UNCHANGED <<not_details, device_vars, oneshot, uniform_buffers>>

VertexBufferReturn ==
    /\ buffer_details.pc = "vertex_upload"
    /\ upload.pc = "done"
    /\ buffer_details' =
           IF upload.result = "Ok"
           THEN [buffer_details EXCEPT !.pc = "index_buffer",
                                       !.vertex_buffer = upload.returned]
           ELSE DetailsReturns(upload.result)
    /\ UNCHANGED <<not_details, device_vars, oneshot, upload, uniform_buffers>>

\* create_index_buffer(device, command_pool, graphics_queue, index_data)
CreateIndexBuffer ==
    /\ buffer_details.pc = "index_buffer"
    /\ \E d \in IndexData : upload' = StartUpload(d, "INDEX_BUFFER")
    /\ buffer_details' = [buffer_details EXCEPT !.pc = "index_upload"]
    /\ UNCHANGED <<not_details, device_vars, oneshot, uniform_buffers>>

IndexBufferReturn ==
    /\ buffer_details.pc = "index_upload"
    /\ upload.pc = "done"
    /\ buffer_details' =
           IF upload.result = "Ok"
           THEN [buffer_details EXCEPT !.pc = "uniform_buffers",
                                       !.index_buffer = upload.returned]
           ELSE DetailsReturns(upload.result)
    /\ UNCHANGED <<not_details, device_vars, oneshot, upload, uniform_buffers>>

\* (0..framebuffers.len()).map(|_| uniform_buffer_data.create(&device)):
\* the next uniform buffer; a failed BufferInfo::create ends the setup and
\* leaves what it created on the device.
CreateUniformBuffers ==
    /\ buffer_details.pc = "uniform_buffers"
    /\ IF Len(buffer_details.uniform_buffers) = Len(buffer_details.framebuffers)
       THEN /\ buffer_details' =
                   [buffer_details EXCEPT !.pc = "descriptor_pool"]
            /\ UNCHANGED <<uniform_buffers, device_buffers>>
       ELSE \E r \in CreateResults(HostVisibleCoherent) :
               IF r = "Ok"
               THEN /\ uniform_buffers' =
                           Append(uniform_buffers, CreateUniformBuffer)
                    /\ buffer_details' =
                           [buffer_details EXCEPT
                               !.uniform_buffers =
                                   Append(@, Len(uniform_buffers) + 1)]
                    /\ UNCHANGED device_buffers
               ELSE /\ device_buffers' =
                           device_buffers \o CreatedBuffer(SizeOfData,
                               {"UNIFORM_BUFFER"}, HostVisibleCoherent, r)
                    /\ buffer_details' = DetailsReturns(r)
                    /\ UNCHANGED uniform_buffers
    /\ UNCHANGED <<not_details, device_images, pool_allocated, queue_work,
                   oneshot, upload>>

\* create_descriptor_sets: the pool for uniform_buffers.len() sets.
CreateDescriptorPool ==
    /\ buffer_details.pc = "descriptor_pool"
    /\ \/ buffer_details' =
             [buffer_details EXCEPT
                 !.pc = "descriptor_sets",
                 !.descriptor_pool =
                     Some(DescriptorPool(Len(buffer_details.uniform_buffers)))]
       \/ buffer_details' =
             DetailsReturns("failed to create descriptor pool!")
    /\ UNCHANGED <<not_details, device_vars, oneshot, upload, uniform_buffers>>

\* create_descriptor_sets: allocate num_sets sets from the pool and write
\* each with its uniform buffer.
CreateDescriptorSets ==
    /\ buffer_details.pc = "descriptor_sets"
    /\ LET num_sets == Len(buffer_details.uniform_buffers)
           pool == Unwrap(buffer_details.descriptor_pool)
       IN  \/ buffer_details' =
                 [buffer_details EXCEPT
                     !.pc = "command_buffers",
                     !.descriptor_pool =
                         Some([pool EXCEPT !.allocated = @ + num_sets]),
                     !.descriptor_sets =
                         WriteDescriptorSets(buffer_details.uniform_buffers,
                                             num_sets)]
           \/ buffer_details' =
                 DetailsReturns("failed to allocate descriptor sets")
    /\ UNCHANGED <<not_details, device_vars, oneshot, upload, uniform_buffers>>

\* create_command_buffers: framebuffers.len() command buffers from the
\* command pool, recorded in turn up to and including the first whose begin
\* or end fails.
CreateCommandBuffers ==
    /\ buffer_details.pc = "command_buffers"
    /\ LET num_buffers == Len(buffer_details.framebuffers)
           recorded(n) ==
               [i \in 1 .. n |->
                   RecordedCommands(i, Unwrap(buffer_details.vertex_buffer),
                                    Unwrap(buffer_details.index_buffer))]
       IN  \/ /\ buffer_details' =
                    [DetailsReturns("Ok") EXCEPT
                        !.command_buffers = recorded(num_buffers)]
              /\ pool_allocated' = pool_allocated + num_buffers
           \/ /\ buffer_details' =
                    DetailsReturns("failed to allocate command buffers")
              /\ UNCHANGED pool_allocated
           \/ \E failed \in 1 .. num_buffers,
                 err \in {"failed to begin recording command buffer",
                          "failed to end command buffer recording"} :
                 /\ buffer_details' =
                       [DetailsReturns(err) EXCEPT
                           !.command_buffers =
                               Append(recorded(failed - 1),
                                      FailedRecording(
                                          failed,
                                          Unwrap(buffer_details.vertex_buffer),
                                          Unwrap(buffer_details.index_buffer),
                                          err))]
                 /\ pool_allocated' = pool_allocated + num_buffers
    /\ UNCHANGED <<not_details, device_buffers, device_images, queue_work,
                   oneshot, upload, uniform_buffers>>

\* The device as the swapchain creation left it, before BufferDetails::new.
DetailsInit ==
    /\ FrameInit
    /\ frames_in_flight = 1
    /\ memory_types \in TransferTables
    /\ memory_query = None
    /\ DeviceAtRest
    /\ upload = NoUpload
    /\ image_call = NoImageCall
    /\ EngineAtRest
    /\ UniformAtRest

\* The steps of create_gpu_local_buffer and of its one-shot submission.
UploadBody ==
    \/ CreateStagingBuffer
    \/ MapStaging
    \/ CopyToStaging
    \/ UnmapStaging
    \/ CreateGpuBuffer
    \/ CopyToGpu
    \/ UploadReturn
    \/ OneShotNext

DetailsNext ==
    \/ DetailsCall
    \/ CreateFramebuffers
    \/ CreateCommandPool
    \/ CreateVertexBuffer
    \/ VertexBufferReturn
    \/ CreateIndexBuffer
    \/ IndexBufferReturn
    \/ CreateUniformBuffers
    \/ CreateDescriptorPool
    \/ CreateDescriptorSets
    \/ CreateCommandBuffers
    \/ UploadBody

SpecDetails == DetailsInit /\ [][DetailsNext]_vars

\* BufferDetails::new has returned Ok(BufferDetails { .. }).
DetailsOk == buffer_details.pc = "done" /\ buffer_details.result = "Ok"

\* C23: after BufferDetails::new succeeds there are as many framebuffers,
\* uniform buffers, descriptor sets and pre-recorded command buffers as the
\* swapchain has image views; the descriptor pool holds exactly that many
\* sets; descriptor set i is bound to uniform buffer i and is the set bound
\* in command buffer i, which renders into framebuffer i.
C23_OnePerImageView ==
    DetailsOk =>
       /\ Len(buffer_details.framebuffers) = num_images
       /\ Len(buffer_details.uniform_buffers) = num_images
       /\ Len(uniform_buffers) = num_images
       /\ Len(buffer_details.descriptor_sets) = num_images
       /\ Len(buffer_details.command_buffers) = num_images
       /\ \A pool \in buffer_details.descriptor_pool :
             /\ pool.max_sets = num_images
             /\ pool.descriptor_count = num_images
             /\ pool.allocated = num_images
       /\ buffer_details.descriptor_pool # None
       /\ \A i \in 1 .. num_images :
             /\ buffer_details.framebuffers[i].image_view = i
             /\ buffer_details.uniform_buffers[i] = i
             /\ buffer_details.descriptor_sets[i].buffer =
                   buffer_details.uniform_buffers[i]
             /\ buffer_details.descriptor_sets[i].offset = 0
             /\ buffer_details.descriptor_sets[i].range =
                   uniform_buffers[i].size
             /\ buffer_details.command_buffers[i].descriptor_set = i
             /\ buffer_details.command_buffers[i].framebuffer = i

\* C23 witness: BufferDetails::new succeeded for a swapchain of three image
\* views.
C23_Witness ==
    /\ DetailsOk
    /\ num_images = 3
    /\ Len(buffer_details.command_buffers) = 3
    /\ buffer_details.descriptor_sets[3].buffer = 3
    /\ buffer_details.vertex_buffer = Some(2)
    /\ buffer_details.index_buffer = Some(4)
    /\ Len(device_buffers) = 4
    /\ pool_allocated = 3

-----------------------------------------------------------------------------
\* draw_next_frame on the resources of BufferDetails::new, with the clock
\* (src/src/vulkan/sync.rs, lines 246-260).

\* Bounds: the calls of draw_next_frame, and the whole seconds between two
\* readings of the clock.
MaxTickCalls == 2
MaxSeconds == 1

HalfSecond == MicrosPerSecond \div 2

\* Duration::subsec_micros: the fractional part of the duration, in whole
\* microseconds.
SubsecMicros(duration) == duration % MicrosPerSecond

\* The vertex and index data the resources were built from.
BuiltVertexData == [bytes |-> <<"a", "b">>, elem_size |-> 2]
BuiltIndexData == [bytes |-> <<"b">>, elem_size |-> 1]

\* The staging buffer and the destination buffer of a successful upload.
UploadedBuffers(d, usage_flag) ==
    LET size == SizeOfVal(d.bytes, d.elem_size)
        staging == CreatedBuffer(size, {"TRANSFER_SRC"}, HostVisibleCoherent,
                                 "Ok")[1]
        gpu == CreatedBuffer(size, {"TRANSFER_DST", usage_flag}, DeviceLocal,
                             "Ok")[1]
    IN  <<[staging EXCEPT !.bytes = d.bytes], [gpu EXCEPT !.bytes = d.bytes]>>

\* The buffers on the device after a successful BufferDetails::new.
BuiltBuffers ==
    UploadedBuffers(BuiltVertexData, "VERTEX_BUFFER")
        \o UploadedBuffers(BuiltIndexData, "INDEX_BUFFER")

\* What a successful BufferDetails::new returns for n image views.
BuiltDetails(n) ==
    [pc |-> "done",
     framebuffers |-> [i \in 1 .. n |-> Framebuffer(i)],
     command_pool |-> TRUE,
     vertex_buffer |-> Some(2),
     index_buffer |-> Some(4),
     uniform_buffers |-> [i \in 1 .. n |-> i],
     descriptor_pool |-> Some([DescriptorPool(n) EXCEPT !.allocated = n]),
     descriptor_sets |-> WriteDescriptorSets([i \in 1 .. n |-> i], n),
     command_buffers |-> [i \in 1 .. n |-> RecordedCommands(i, 2, 4)],
     result |-> "Ok"]

\* What draw_next_frame has no access to, or only reads.
not_tick == <<memory_vars, device_vars, oneshot, callers, buffer_details>>

\* The engine after Objects::new: the resources are built, the frame state
\* is the default, the clock was just read.
TickInit ==
    /\ FrameInit
    /\ memory_types = <<DeviceLocal, HostVisibleCoherent>>
    /\ memory_query = None
    /\ device_buffers = BuiltBuffers
    /\ device_images = <<>>
    /\ pool_allocated = num_images
    /\ queue_work = <<>>
    /\ oneshot = NoOneShot
    /\ upload = NoUpload
    /\ image_call = NoImageCall
    /\ timer = NoTimer
    /\ buffer_details = BuiltDetails(num_images)
    /\ uniform_buffers = [i \in 1 .. num_images |-> CreateUniformBuffer]
    /\ uniform = NoUniformCall

\* start_time.elapsed(): the time since the clock was last read, in
\* microseconds.
Elapsed == {0, HalfSecond, MaxSeconds * MicrosPerSecond + HalfSecond}

\* Lines 246-260: read the time elapsed since start_time, restart the
\* timer, and call update_buffer on the uniform buffer of the acquired
\* image with delta_time.subsec_micros() as f32 / 1000_000.0.
DrawUpdateCall ==
    /\ pc = "update"
    /\ uniform.pc \in {"idle", "done"}
    /\ \E delta_time \in Elapsed :
       LET i == Unwrap(acquired_image_index)
       IN  /\ Get(Len(uniform_buffers), i) # None
           /\ timer' = [timer EXCEPT !.elapsed = delta_time,
                                     !.start_time = @ + delta_time]
           /\ uniform' =
                  [uniform EXCEPT
                      !.pc = "update",
                      !.delta_time = SubsecMicros(delta_time),
                      !.uniform_buffer = Some(UniformBufferOf(i) + 1),
                      !.data = <<>>,
                      !.model_before = Some(uniform.model),
                      !.unchanged_since =
                          IF SubsecMicros(delta_time) # 0 THEN None
                          ELSE IF @ = None THEN Some(uniform.model) ELSE @,
                      !.steps = <<>>,
                      !.result = "NONE",
                      !.calls = uniform.calls + 1]
    /\ pc' = "updating"
    /\ UNCHANGED <<not_tick, uniform_buffers, config, semaphores, current_frame,
                   images_in_flight, fence_signaled, gpu_pending, result,
                   acquired_image_index, image_in_flight, call, entry,
                   counters>>

\* Line 260: update_buffer(..)? has returned.
DrawUpdateReturn ==
    /\ pc = "updating"
    /\ uniform.pc = "done"
    /\ IF uniform.result = "Ok"
       THEN /\ pc' = "wait_image"
            /\ call' = [call EXCEPT
                           !.written =
                               @ \cup {Unwrap(uniform.uniform_buffer) - 1},
                           !.ops = Append(@, UpdateOp(
                                       Unwrap(acquired_image_index), TRUE))]
            /\ UNCHANGED result
       ELSE /\ Return(uniform.result)
            /\ UNCHANGED call
    /\ UNCHANGED <<setup_vars, config, semaphores, current_frame,
                   images_in_flight, fence_signaled, gpu_pending,
                   acquired_image_index, image_in_flight, entry, counters>>

TickCall == CallUpTo(MaxTickCalls)

TickNext ==
    \/ TickCall
    \/ WaitSlotFence
    \/ WaitSlotFenceFail
    \/ Acquire
    \/ AcquireFail
    \/ DrawUpdateCall
    \/ UpdateSnapshot
    \/ MapUniform
    \/ CopyUniform
    \/ UnmapUniform
    \/ DrawUpdateReturn
    \/ WaitImageFence
    \/ WaitImageFenceFail
    \/ Submit
    \/ ResetFail
    \/ SubmitFail
    \/ PresentOk
    \/ PresentSuboptimal
    \/ PresentFail
    \/ GpuRetire

SpecTick == TickInit /\ [][TickNext]_vars

\* C21 as stated: the delta_time given to the uniform update of a tick is
\* the wall-clock time elapsed since the previous update, or since the
\* engine was created.
C21_DeltaTimeIsElapsed ==
    pc = "updating" => uniform.delta_time = timer.elapsed

\* C22: after setup no step of draw_next_frame changes the descriptor sets,
\* the pre-recorded command buffers, the vertex and index buffers or
\* anything else BufferDetails::new built; a uniform buffer changes only
\* while the call updates the buffer of the image it acquired, it keeps its
\* size, and it is not mapped once the call has returned.
C22_TickWritesOnlyItsUniformBuffer ==
    /\ [](/\ buffer_details = BuiltDetails(num_images)
          /\ device_buffers = BuiltBuffers
          /\ Len(uniform_buffers) = num_images
          /\ \A k \in 1 .. Len(uniform_buffers) :
                /\ uniform_buffers[k].size = SizeOfData
                /\ pc # "updating" => uniform_buffers[k].mapped = None)
    /\ [][/\ UNCHANGED not_tick
          /\ \A k \in 1 .. Len(uniform_buffers) :
                uniform_buffers'[k] # uniform_buffers[k] =>
                   /\ pc = "updating"
                   /\ pc' = "updating"
                   /\ acquired_image_index = Some(k - 1)
          /\ uniform' # uniform => pc \in {"update", "updating"}
          /\ timer' # timer => pc = "update"]_vars

\* C22 witness: the call acquired the third image and has rewritten its
\* uniform buffer; the buffers of the other images are as created.
C22_Witness ==
    /\ Returned
    /\ result = "Ok"
    /\ acquired_image_index = Some(2)
    /\ uniform_buffers[3].bytes = uniform.data
    /\ uniform.data # <<>>
    /\ uniform_buffers[1] = CreateUniformBuffer
    /\ uniform_buffers[2] = CreateUniformBuffer
    /\ timer.start_time > 0

-----------------------------------------------------------------------------
\* The frame loop and the GPU: what is still in use when the CPU acts.

\* C31 as stated: when the call has written the uniform buffer of the
\* acquired image, no pending batch reads that buffer: the frame that last
\* rendered the image has retired.
C31_NoUniformWriteWhilePending ==
    pc = "wait_image" =>
       \A b \in Pending : UniformBufferOf(b.image) \notin call.written


\* The presentation engine executes the wait of the oldest present queued,
\* once its semaphore is signaled, and releases the image.
PresentationEngine ==
    /\ semaphores.presents # <<>>
    /\ LET request == Head(semaphores.presents)
       IN  /\ semaphores.render_finished[request.semaphore] > 0
           /\ semaphores' =
                 [semaphores EXCEPT
                     !.presents = Tail(@),
                     !.render_finished[request.semaphore] = @ - 1]
    /\ UNCHANGED <<setup_vars, config, current_frame, images_in_flight,
                   fence_signaled, gpu_pending, pc, result,
                   acquired_image_index, image_in_flight, call, entry,
                   counters>>

\* Objects::new, its semaphores followed; what the setup did is left alone.
SyncInit ==
    /\ FrameObjects
    /\ semaphores = CreatedSemaphores(frames_in_flight)
    /\ swapchain = NoSwapchain
    /\ texture = NoTexture
    /\ MemoryAtRest
    /\ DeviceAtRest
    /\ upload = NoUpload
    /\ image_call = NoImageCall
    /\ EngineAtRest
    /\ UniformAtRest

SyncNext ==
    \/ TickCall
    \/ WaitSlotFence
    \/ WaitSlotFenceFail
    \/ Acquire
    \/ AcquireFail
    \/ UpdateUniform
    \/ UpdateUniformFail
    \/ WaitImageFence
    \/ WaitImageFenceFail
    \/ Submit
    \/ ResetFail
    \/ SubmitFail
    \/ PresentOk
    \/ PresentSuboptimal
    \/ PresentFail
    \/ GpuRetire
    \/ PresentationEngine

SpecSync == SyncInit /\ [][SyncNext]_vars

\* C32 as stated: the image-available semaphore of the slot holds no signal
\* that no submit has waited on when the call gives it to
\* acquire_next_image, whatever the earlier calls returned.
C32_AcquireOnUnsignaledSemaphore ==
    pc = "acquire" => semaphores.image_available[current_frame] = 0

\* C33 as stated: no render-finished semaphore that a queued present still
\* waits on has been signaled again by the batch of a later submit.
C33_NoSignalBeforePresentConsumed ==
    \A k \in 1 .. Len(semaphores.presents) :
       semaphores.render_finished[semaphores.presents[k].semaphore] <= 1

-----------------------------------------------------------------------------
\* The frame loop when acquire_next_image may return an index one past the
\* per-image resources.

AcquireAnyIndex == \E i \in 0 .. num_images : AcquireOk(i)

AnyIndexNext ==
    \/ TickCall
    \/ WaitSlotFence
    \/ WaitSlotFenceFail
    \/ AcquireAnyIndex
    \/ AcquireFail
    \/ UpdateUniform
    \/ UpdateUniformFail
    \/ WaitImageFence
    \/ WaitImageFenceFail
    \/ Submit
    \/ ResetFail
    \/ SubmitFail
    \/ PresentOk
    \/ PresentSuboptimal
    \/ PresentFail
    \/ GpuRetire

SpecAnyIndex == Init /\ [][AnyIndexNext]_vars

\* The call in progress, or the last one, acquired an index that no
\* per-image resource has.
StrayIndex ==
    /\ acquired_image_index # None
    /\ Unwrap(acquired_image_index) >= num_images

\* C34: when acquire returns an index that has no uniform buffer, the call
\* goes no further than the lookup of the uniform buffer: it returns the
\* lookup's error, having submitted and presented nothing, reset no fence,
\* written no buffer, waited on no fence but the slot's, and left
\* current_frame and images_in_flight as they were.
C34_StrayIndexFailsUntouched ==
    StrayIndex =>
       /\ pc \in {"update", "idle"}
       /\ pc = "idle" =>
             result = "could not find uniform buffer for the image"
       /\ call.submits = 0 /\ call.presents = 0 /\ call.resets = 0
       /\ call.written = {}
       /\ call.waited = {SlotFence(current_frame)}
       /\ fence_signaled[SlotFence(current_frame)]
       /\ current_frame = entry.current_frame
       /\ images_in_flight = entry.images_in_flight
       /\ DOMAIN images_in_flight = Images

C34_Witness ==
    /\ StrayIndex
    /\ pc = "idle"
    /\ result = "could not find uniform buffer for the image"
    /\ ticks > 1

-----------------------------------------------------------------------------
\* BufferDetails::new: the command buffers and the draw they record.

\* The recording of command buffer i is complete.
Recorded(i) ==
    LET commands == buffer_details.command_buffers[i].commands
    IN  /\ commands # <<>>
        /\ commands[Len(commands)] = "end_command_buffer"

\* create_command_buffers was reached, and the recording of a command buffer
\* failed.
RecordingFailed ==
    /\ buffer_details.pc = "done"
    /\ \E i \in DOMAIN buffer_details.command_buffers : ~Recorded(i)

C35_WitnessFailed ==
    /\ RecordingFailed
    /\ num_images = 3
    /\ Len(buffer_details.command_buffers) = 2
    /\ buffer_details.result = "failed to end command buffer recording"

\* C37 as stated: the indexed draw of every command buffer draws as many
\* indices as the index data given to BufferDetails::new holds.
C37_DrawsEveryIndex ==
    DetailsOk =>
       \A i \in 1 .. Len(buffer_details.command_buffers) :
          buffer_details.command_buffers[i].index_count =
             Len(device_buffers[Unwrap(buffer_details.index_buffer)].bytes)

-----------------------------------------------------------------------------
\* create_gpu_local_buffer: the copy into the mapped staging memory.

\* C36 as stated: the bytes the upload has copied into the staging buffer
\* lie within the range it mapped, with or without a buffer_size override.
C36_CopyWithinMappedRange ==
    upload.written <= upload.buffer_size

-----------------------------------------------------------------------------
\* SwapchainDetails::new (src/src/vulkan/swapchain.rs).

\* std::u32::MAX, the width of an undefined current_extent, on the 12-bit
\* scale the extents of the model are counted in.
U32Max == 4095

\* src/src/main.rs
WINDOW_WIDTH == 800
WINDOW_HEIGHT == 600

\* The widths and heights a surface reports as its limits.
ExtentLimits == {1, 600, 800, 1000}

Extent2D(width, height) == [width |-> width, height |-> height]

\* The capabilities of the surfaces: min_image_extent is at most
\* max_image_extent in each dimension, and current_extent is either
\* undefined or an extent within these limits.
SurfaceCapabilities ==
    {c \in [current_extent : {Extent2D(WINDOW_WIDTH, WINDOW_HEIGHT),
                              Extent2D(1000, 600),
                              Extent2D(U32Max, U32Max)},
            min_image_extent :
                {Extent2D(w, h) : w \in ExtentLimits, h \in ExtentLimits},
            max_image_extent :
                {Extent2D(w, h) : w \in ExtentLimits, h \in ExtentLimits}] :
        /\ c.min_image_extent.width <= c.max_image_extent.width
        /\ c.min_image_extent.height <= c.max_image_extent.height
        /\ c.current_extent.width # U32Max =>
              /\ c.current_extent.width >= c.min_image_extent.width
              /\ c.current_extent.width <= c.max_image_extent.width
              /\ c.current_extent.height >= c.min_image_extent.height
              /\ c.current_extent.height <= c.max_image_extent.height}

\* cmp::max and cmp::min
Max(a, b) == IF a >= b THEN a ELSE b
Min(a, b) == IF a <= b THEN a ELSE b

\* choose_swap_extent: current_extent unless its width is u32::MAX; else
\* the window size, each dimension through
\* cmp::max(min_image_extent, cmp::min(min_image_extent, actual_extent)).
ChooseSwapExtent(capabilities) ==
    IF capabilities.current_extent.width # U32Max
    THEN capabilities.current_extent
    ELSE Extent2D(Max(capabilities.min_image_extent.width,
                      Min(capabilities.min_image_extent.width,
                          WINDOW_WIDTH)),
                  Max(capabilities.min_image_extent.height,
                      Min(capabilities.min_image_extent.height,
                          WINDOW_HEIGHT)))

\* What SwapchainDetails::new leaves alone.
not_swapchain ==
    <<setup_vars, frames_in_flight, num_images, current_frame,
      images_in_flight, fence_signaled, gpu_pending, pc, result,
      acquired_image_index, image_in_flight, call, entry, counters,
      semaphores, texture>>

SwapchainReturns(r) == [swapchain EXCEPT !.pc = "done", !.result = r]

\* Lines 147-151: SupportDetail::query, choose_format, choose_present_mode
\* (each may fail), then choose_swap_extent.
SwapchainNew ==
    /\ swapchain.pc = "idle"
    /\ \E r \in {"Ok", "failed to query for surface capabilities",
                 "cannot find suitable swapchain format",
                 "cannot find suitable present mode"} :
          swapchain' =
              IF r = "Ok"
              THEN [swapchain EXCEPT
                       !.pc = "create_swapchain",
                       !.extent = Some(ChooseSwapExtent(swapchain))]
              ELSE SwapchainReturns(r)
    /\ UNCHANGED not_swapchain

\* Lines 170-194: create_swapchain with image_extent: extent.
CreateSwapchain ==
    /\ swapchain.pc = "create_swapchain"
    /\ \/ swapchain' = [swapchain EXCEPT !.pc = "get_images"]
       \/ swapchain' = SwapchainReturns("failed to create swapchain")
    /\ UNCHANGED not_swapchain

\* Lines 196-200: get_swapchain_images.
GetSwapchainImages ==
    /\ swapchain.pc = "get_images"
    /\ \/ swapchain' = [swapchain EXCEPT
                           !.pc = "image_views",
                           !.images = [i \in 1 .. num_images |-> i]]
       \/ swapchain' = SwapchainReturns("failed to get swapchain images")
    /\ UNCHANGED not_swapchain

\* Lines 202-222: images.iter().flat_map(create_image_view).collect(): the
\* views of the images whose create_image_view returned Ok, in the order of
\* the images; then Ok(SwapchainDetails { .. }).
CreateImageViews ==
    /\ swapchain.pc = "image_views"
    /\ \E created \in SUBSET (1 .. Len(swapchain.images)) :
          swapchain' =
              [SwapchainReturns("Ok") EXCEPT
                  !.image_views =
                      [k \in 1 .. Cardinality(created) |->
                          [image |->
                              CHOOSE i \in created :
                                 Cardinality({j \in created : j <= i}) = k]]]
    /\ UNCHANGED not_swapchain

\* The surface before SwapchainDetails::new; nothing else is set up.
SwapchainInit ==
    /\ FrameObjects
    /\ frames_in_flight = 1
    /\ semaphores = NoSemaphores
    /\ texture = NoTexture
    /\ \E c \in SurfaceCapabilities :
          swapchain = [NoSwapchain EXCEPT
                          !.current_extent = c.current_extent,
                          !.min_image_extent = c.min_image_extent,
                          !.max_image_extent = c.max_image_extent]
    /\ MemoryAtRest
    /\ DeviceAtRest
    /\ upload = NoUpload
    /\ image_call = NoImageCall
    /\ EngineAtRest
    /\ UniformAtRest

SwapchainNext ==
    \/ SwapchainNew
    \/ CreateSwapchain
    \/ GetSwapchainImages
    \/ CreateImageViews

SpecSwapchain == SwapchainInit /\ [][SwapchainNext]_vars

\* v clamped into [lo, hi].
Clamped(v, lo, hi) == IF v < lo THEN lo ELSE IF v > hi THEN hi ELSE v

\* C38 as stated: the extent chosen is current_extent unless its width is
\* u32::MAX, and then it is (WINDOW_WIDTH, WINDOW_HEIGHT) with each
\* dimension clamped into [min_image_extent, max_image_extent].
C38_ExtentIsClampedWindowSize ==
    \A extent \in swapchain.extent :
       IF swapchain.current_extent.width = U32Max
       THEN /\ extent.width =
                  Clamped(WINDOW_WIDTH, swapchain.min_image_extent.width,
                          swapchain.max_image_extent.width)
            /\ extent.height =
                  Clamped(WINDOW_HEIGHT, swapchain.min_image_extent.height,
                          swapchain.max_image_extent.height)
       ELSE extent = swapchain.current_extent

\* C39 as stated: when SwapchainDetails::new succeeds there are as many
\* image views as swapchain images, and view i is the view of image i.
C39_OneViewPerImage ==
    (swapchain.pc = "done" /\ swapchain.result = "Ok") =>
       /\ Len(swapchain.image_views) = Len(swapchain.images)
       /\ \A i \in 1 .. Len(swapchain.image_views) :
             swapchain.image_views[i].image = swapchain.images[i]

-----------------------------------------------------------------------------
\* texture::Image::new (src/src/vulkan/texture.rs).

\* Bounds: the sides of the images decoded, and the modulus of the u32
\* arithmetic on the scale of these sides (2^32 in the program).
MaxSide == 3
U32Modulus == 16

\* The variants of image::DynamicImage that Image::new tells apart, and one
\* of the others.
ColorTypes ==
    {"ImageBgr8", "ImageLuma8", "ImageRgb8", "ImageBgra8", "ImageLumaA8",
     "ImageRgba8", "ImageRgb16"}

\* DynamicImage::to_bytes: the samples as stored, one byte per channel.
Channels(color_type) ==
    CASE color_type = "ImageLuma8" -> 1
      [] color_type = "ImageLumaA8" -> 2
      [] color_type \in {"ImageBgr8", "ImageRgb8"} -> 3
      [] color_type \in {"ImageBgra8", "ImageRgba8"} -> 4
      [] OTHER -> 6

\* Lines 25-33: the length of data; to_rgba().into_raw() has four bytes per
\* pixel, to_bytes() as many as the variant has channels.  None when the
\* variant is not converted.
ImageDataLen(color_type, width, height) ==
    IF color_type \in {"ImageBgr8", "ImageLuma8", "ImageRgb8"}
    THEN Some(4 * width * height)
    ELSE IF color_type \in {"ImageBgra8", "ImageLumaA8", "ImageRgba8"}
    THEN Some(Channels(color_type) * width * height)
    ELSE None

\* Lines 34-35: size_of::<u8>() as u32 * width * height * 4 in u32: with
\* overflow checks the product panics when it does not fit, without them
\* it wraps.  None stands for the panic.
ImageSize(width, height, overflow_checks) ==
    IF 4 * width * height < U32Modulus
    THEN Some(4 * width * height)
    ELSE IF overflow_checks THEN None
    ELSE Some((4 * width * height) % U32Modulus)

\* What Image::new leaves alone.
not_texture ==
    <<setup_vars, frames_in_flight, num_images, current_frame,
      images_in_flight, fence_signaled, gpu_pending, pc, result,
      acquired_image_index, image_in_flight, call, entry, counters,
      semaphores, swapchain>>

\* Image::new(path): image::open fails, or the image is decoded and
\* flipped; its bytes and its size are computed; a size of 0 is an error.
TextureNew ==
    /\ texture.pc = "idle"
    /\ \/ texture' = [texture EXCEPT !.pc = "done", !.result = "image error"]
       \/ LET data == ImageDataLen(texture.format, texture.width,
                                   texture.height)
              size == ImageSize(texture.width, texture.height,
                                texture.overflow_checks)
          IN  texture' =
                 IF data = None
                 THEN [texture EXCEPT
                          !.pc = "done",
                          !.result = "image cannot be converted to bytes"]
                 ELSE IF size = None
                 THEN [texture EXCEPT
                          !.pc = "done",
                          !.data_len = Unwrap(data),
                          !.result = "panic: attempt to multiply with overflow"]
                 ELSE [texture EXCEPT
                          !.pc = "done",
                          !.data_len = Unwrap(data),
                          !.size = Unwrap(size),
                          !.result = IF Unwrap(size) <= 0
                                     THEN "failed to load image"
                                     ELSE "Ok"]
    /\ UNCHANGED not_texture

\* The image file at path, and the build of the program; nothing else is
\* set up.
TextureInit ==
    /\ FrameObjects
    /\ frames_in_flight = 1
    /\ num_images = 1
    /\ semaphores = NoSemaphores
    /\ swapchain = NoSwapchain
    /\ \E color_type \in ColorTypes, width \in 0 .. MaxSide,
          height \in 0 .. MaxSide, overflow_checks \in BOOLEAN :
          texture = [NoTexture EXCEPT
                        !.format = color_type,
                        !.width = width,
                        !.height = height,
                        !.overflow_checks = overflow_checks]
    /\ MemoryAtRest
    /\ DeviceAtRest
    /\ upload = NoUpload
    /\ image_call = NoImageCall
    /\ EngineAtRest
    /\ UniformAtRest

TextureNext == TextureNew

SpecTexture == TextureInit /\ [][TextureNext]_vars

\* C40 as stated: an image Image::new returns has size 4 * w * h, which is
\* the length of its data; and an image of no pixel is never returned.
C40_SizeIsDataLength ==
    texture.pc = "done" =>
       /\ texture.result = "Ok" =>
             /\ texture.size = 4 * texture.width * texture.height
             /\ texture.size = texture.data_len
       /\ texture.width * texture.height = 0 => texture.result # "Ok"
       /\ texture.result # "panic: attempt to multiply with overflow"
=============================================================================
